---- MODULE Spec2Model ----
(***************************************************************************)
(* RemoteScanner of cordiverse/registry.                                   *)
(*                                                                         *)
(* The repository holds two revisions of RemoteScanner:                    *)
(*   "remote"   : src/packages/core/src/remote.ts (lines 35-133)           *)
(*   "part_001" : src/unnamed/part_001            (lines 40-163)           *)
(* The variable rev says which one is running; it is chosen in Init and    *)
(* never changes.                                                          *)
(*                                                                         *)
(* Several specifications share the module:                                   *)
(*   Spec        the crawl: collect / loadEcosystem / loadPackage          *)
(*   SpecSearch  the pagination of search / _search                        *)
(*   SpecSelect  the version selection of loadPackage (a pure function)    *)
(*   SpecGate    the PQueue({ concurrency: 10 }) in front of the metadata  *)
(*               requests                                                  *)
(*   SpecLoad    one hit of loadEcosystem from its metadata request to its *)
(*               outcome callback, over every registry document            *)
(*   SpecIndex   Synchronizer: analyze, bundleAll, generate                *)
(*   SpecCheck   Synchronizer: checkAll                                    *)
(*   SpecBundle  Synchronizer: the scoring pass of bundleAll               *)
(*   SpecLocal   LocalScanner: _collect, loadEcosystem, loadPackage        *)
(*   SpecTerm    the worklist loops of RemoteScanner.collect and           *)
(*               LocalScanner._collect against one fixed registry          *)
(*   SpecStart   Synchronizer.start, run after run on one output directory *)
(***************************************************************************)
EXTENDS Integers, Sequences, FiniteSets, TLC

None == "none"

Revisions == {"remote", "part_001"}

(* ----------------------------- bounds --------------------------------- *)
\* number of loadEcosystem calls of one crawl (INIT included)
MaxTasks == 3
\* number of search hits of one crawl, over all its searches
MaxObjects == 3

\* package names, ecosystems and last-modified dates of the modelled registry
Names == {"a", "b"}
NameOrder == <<"a", "b">>
SubEcos == {"x"}
Ecos == {"INIT"} \cup SubEcos
Dates == {1, 2}

\* SpecSearch: page sizes, and totals / listing lengths of the endpoint
MaxStep == 3
MaxTotal == 5
\* SpecSearch: the names an endpoint that shifts between calls answers with
ShiftNames == {1, 2, 3}
\* SpecGate: number of loadPackage calls
MaxLoads == 12
\* SpecLocal: number of loadEcosystem calls of one LocalScanner._collect
MaxLocalRounds == 4
\* SpecLocal: number of collect() calls on one LocalScanner
MaxCollects == 2
\* SpecStart: number of consecutive runs of Synchronizer.start
MaxRuns == 2
\* SpecBundle: significant decimal digits one arithmetic operation keeps
\* (a binary64 number of the program keeps 53 significant bits)
Precision == 2

(* --------------------------- program constants ------------------------ *)
\* const version = 6 (the format version of the Synchronizer's snapshot)
SyncVersion == 6
\* const REFRESH_INTERVAL = Time.day / 2, in milliseconds
REFRESH_INTERVAL == 43200000
\* const { step = 250, margin = 25 }
DefaultStep == 250
DefaultMargin == 25
\* new PQueue({ concurrency: 10 })
Concurrency == 10
\* const version = 1 (the format version of cache.json read by _initCache)
SearchCacheVersion == 1

VARIABLES
  rev,           \* which revision of RemoteScanner runs
  cacheFile,     \* part_001: what options.cacheDir holds on disk (environment)
  searchCache,   \* part_001: this.searchCache
  legacyResult,  \* part_001: names of this.legacyResult.objects
  collectPc,     \* position of collect()
  tasks,         \* this.tasks / this.ecoTasks: ids of the promises not yet spliced
  batch,         \* ids of the promises the running Promise.all(tasks.splice(0)) awaits
  ecoTasks,      \* every loadEcosystem call made so far, by id
  sCfg, sMode, sIndex, sPc, sTotal, sCache, sOffset, sReqs, sReceived,   \* SpecSearch
  selDoc, selLatest,                                           \* SpecSelect
  gArrived, gQueue, gPending, gDone,                           \* SpecGate
  ldIn, ldOut,                                                 \* SpecLoad
  lcCandidates, lcEcosystems, lcVisited, lcTasks, lcCache, lcPc,   \* SpecLocal
  lcCalls, lcCollects,                                         \* SpecLocal
  tmScanner, tmRegistry, tmTasks, tmBatch, tmEcosystems, tmCurrent, tmPc,   \* SpecTerm
  stDisk, stListing, stNow, stRun,                             \* SpecStart
  ixObjects, ixShortnames, ixPc, ixFiles,                      \* SpecIndex
  ckIn, ckOut,                                                 \* SpecCheck
  bnIn, bnItems, bnTasks, bnLog, bnPc                          \* SpecBundle

crawlVars == <<rev, cacheFile, searchCache, legacyResult, collectPc, tasks, batch, ecoTasks>>
searchVars == <<sCfg, sMode, sIndex, sPc, sTotal, sCache, sOffset, sReqs, sReceived>>
selectVars == <<selDoc, selLatest>>
gateVars == <<gArrived, gQueue, gPending, gDone>>
loadVars == <<ldIn, ldOut>>
localVars == <<lcCandidates, lcEcosystems, lcVisited, lcTasks, lcCache, lcPc, lcCalls, lcCollects>>
termVars == <<tmScanner, tmRegistry, tmTasks, tmBatch, tmEcosystems, tmCurrent, tmPc>>
indexVars == <<ixObjects, ixShortnames, ixPc, ixFiles>>
checkVars == <<ckIn, ckOut>>
bundleVars == <<bnIn, bnItems, bnTasks, bnLog, bnPc>>
startVars == <<stDisk, stListing, stNow, stRun>>
syncVars == <<indexVars, checkVars, bundleVars, startVars>>
vars == <<crawlVars, searchVars, selectVars, gateVars, loadVars, localVars, termVars, syncVars>>

(***************************************************************************)
(* Registry documents (GET {registry}/<name>) and loadPackage.             *)
(* A version is [v, deprecated, memberOf, short, declares, time]:          *)
(*   v         <<major, minor, patch>>                                     *)
(*   memberOf  the ecosystems whose Ecosystem.check accepts this version   *)
(*   short     the shortname Ecosystem.check returns when it accepts       *)
(*   declares  the sub-ecosystem Manifest.conclude(...).ecosystem resolves *)
(*             to, or None                                                 *)
(*   time      registry.time[version]                                      *)
(* A document is [versions, distTag, malformed]: distTag is the version    *)
(* 'dist-tags'.latest names (<<>> when there is none), malformed names the *)
(* property the response lacks ("no" when it is complete).                 *)
(***************************************************************************)
V(v, deprecated, memberOf, declares, time) ==
  [v |-> v, deprecated |-> deprecated, memberOf |-> memberOf, short |-> "s",
   declares |-> declares, time |-> time]

Doc(versions, distTag, malformed) ==
  [versions |-> versions, distTag |-> distTag, malformed |-> malformed]

\* compare(a, b) of semver on release versions: -1, 0 or 1
compare(a, b) ==
  IF a[1] # b[1] THEN (IF a[1] < b[1] THEN -1 ELSE 1)
  ELSE IF a[2] # b[2] THEN (IF a[2] < b[2] THEN -1 ELSE 1)
  ELSE IF a[3] # b[3] THEN (IF a[3] < b[3] THEN -1 ELSE 1)
  ELSE 0

\* Object.values(registry.versions).sort((a, b) => compare(b.version, a.version))
RECURSIVE SortVersions(_)
SortVersions(S) ==
  IF S = {} THEN <<>>
  ELSE LET top == CHOOSE x \in S : \A y \in S : compare(y.v, x.v) <= 0
       IN <<top>> \o SortVersions(S \ {top})

IsActive(item) == ~item.deprecated

\* remote.ts: versions.filter(item => !item.deprecated), then activeVersions[0]
HighestActive(doc) ==
  LET activeVersions == SelectSeq(SortVersions(doc.versions), IsActive)
  IN IF activeVersions = <<>> THEN <<>> ELSE <<activeVersions[1]>>

\* part_001: registry['dist-tags']['latest'], registry.versions[latestVersion]
TaggedLatest(doc) ==
  LET tagged == {x \in doc.versions : x.v = doc.distTag}
  IN IF tagged = {} THEN <<>>
     ELSE LET latest == CHOOSE x \in tagged : TRUE
          IN IF latest.deprecated THEN <<>> ELSE <<latest>>

\* the version loadPackage calls latest: <<>> when it returns before having one
Latest(r, doc) == IF r = "remote" THEN HighestActive(doc) ELSE TaggedLatest(doc)

\* Ecosystem.check(eco, latest): the shortname, or None
Ecosystem_check(eco, latest) == IF eco \in latest.memberOf THEN latest.short ELSE None

\* Ecosystem.resolve(registry.name, manifest).name for manifest.ecosystem
Ecosystem_resolve(latest) == latest.declares

\* a faulty variant of SetMin: the last element of the sorted times
SetMinLast(S) == CHOOSE x \in S : \A y \in S : y <= x
\* times[0] and times[times.length - 1] of the sorted publish times
SetMin(S) == CHOOSE x \in S : \A y \in S : x <= y
SetMax(S) == CHOOSE x \in S : \A y \in S : y <= x

Untouched ==
  [ecosystem |-> None, shortname |-> None, manifestEco |-> None, pushed |-> None,
   createdAt |-> 0, updatedAt |-> 0]

\* loadPackage from the response on: what it returns or throws, what it wrote
\* on the object, and the sub-ecosystem it pushed a loadEcosystem call for.
loadPackage(r, eco, doc) ==
  IF doc.malformed = "versions" THEN [kind |-> "throw"] @@ Untouched
  ELSE IF r = "part_001" /\ doc.malformed = "dist-tags" THEN [kind |-> "throw"] @@ Untouched
  ELSE LET latest == Latest(r, doc) IN
    IF latest = <<>> THEN [kind |-> "skip"] @@ Untouched
    ELSE IF Ecosystem_check(eco, latest[1]) = None THEN [kind |-> "skip"] @@ Untouched
    ELSE LET written ==
               [ecosystem |-> IF r = "remote" THEN eco ELSE None,
                shortname |-> Ecosystem_check(eco, latest[1]),
                manifestEco |-> latest[1].declares,
                pushed |-> Ecosystem_resolve(latest[1])]
             times == {x.time : x \in doc.versions}
         IN IF doc.malformed = "time"
            THEN [kind |-> "throw", createdAt |-> 0, updatedAt |-> 0] @@ written
            ELSE [kind |-> "ok", createdAt |-> SetMin(times), updatedAt |-> SetMax(times)]
                 @@ written

(***************************************************************************)
(* The crawl: collect, loadEcosystem, loadPackage.                         *)
(***************************************************************************)
\* the registry documents a metadata request of the crawl may be answered with
Everywhere == Ecos
CrawlDocs ==
  { Doc({V(<<1, 0, 0>>, FALSE, Everywhere, None, 1)}, <<1, 0, 0>>, "no"),
    Doc({V(<<1, 0, 0>>, FALSE, Everywhere, "x", 1)}, <<1, 0, 0>>, "no"),
    Doc({V(<<1, 0, 0>>, TRUE, Everywhere, None, 1)}, <<1, 0, 0>>, "no"),
    Doc({V(<<1, 0, 0>>, FALSE, {}, None, 1)}, <<1, 0, 0>>, "no"),
    Doc({V(<<1, 0, 0>>, FALSE, Everywhere, None, 1),
         V(<<2, 0, 0>>, FALSE, Everywhere, "x", 1)}, <<1, 0, 0>>, "no"),
    Doc({}, <<>>, "versions"),
    Doc({V(<<1, 0, 0>>, FALSE, Everywhere, "x", 1)}, <<1, 0, 0>>, "time") }

\* what options.cacheDir may hold:
\* [dir, readable, version, registry, packages, legacy, declares]
\*   dir       options.cacheDir is set
\*   readable  cache.json and index.json exist and parse
\*   packages  cache.json packages: the date recorded for each name, 0 for none
\*   legacy    the names of index.json objects
\*   declares  manifest.ecosystem of the index.json object of each name: the
\*             sub-ecosystem the package declared when the snapshot was taken
CacheFile(dir, readable, ver, registry, packages, legacy, declares) ==
  [dir |-> dir, readable |-> readable, version |-> ver, registry |-> registry,
   packages |-> packages, legacy |-> legacy, declares |-> declares]
NoPackages == [n \in Names |-> 0]
NoDeclares == [n \in Names |-> None]
NoCacheFile == CacheFile(FALSE, FALSE, 0, "other", NoPackages, {}, NoDeclares)
CacheFiles ==
  { NoCacheFile,
    CacheFile(TRUE, FALSE, 0, "other", NoPackages, {}, NoDeclares),
    CacheFile(TRUE, TRUE, SearchCacheVersion + 1, "same", [n \in Names |-> 1], {"a"}, NoDeclares),
    CacheFile(TRUE, TRUE, SearchCacheVersion, "other", [n \in Names |-> 1], {"a"}, NoDeclares),
    CacheFile(TRUE, TRUE, SearchCacheVersion, "same", [n \in Names |-> 1], {"a"},
              [n \in Names |-> IF n = "a" THEN "x" ELSE None]) }

\* private searchCache: SearchCache = Object.create(null): it has no packages
EmptySearchCache == [loaded |-> FALSE, packages |-> NoPackages]

\* one search hit, as the map callback of loadEcosystem sees it; requested
\* says that the callback has called loadPackage for it
NewObject(name, date, ignored) ==
  [name |-> name, date |-> date, ignored |-> ignored, pc |-> "start",
   requested |-> FALSE, calls |-> <<>>, arg |-> None,
   ecosystem |-> None, shortname |-> None, manifestEco |-> None,
   createdAt |-> 0, updatedAt |-> 0]

\* the fields of a hit a revision reads; the one it never reads is held fixed
HitInputs(r) ==
  IF r = "remote" THEN [date : {1}, ignored : BOOLEAN]
  ELSE [date : Dates, ignored : {FALSE}]

\* options.onSuccess / onSkipped / onFailure called with arg; the callback returns
Call(o, cb, arg) == [o EXCEPT !.calls = Append(@, cb), !.arg = arg, !.pc = "settled"]

\* a loadEcosystem(eco) call; rounds counts the Promise.all calls of collect
\* that took its promise
NewTask(eco) ==
  [eco |-> eco, status |-> "searching", objects |-> <<>>, rounds |-> 0]

\* a step of the crawl leaves the other specifications' variables alone
CrawlOnly == UNCHANGED <<searchVars, selectVars, gateVars, loadVars, localVars, termVars, syncVars>>

\* const versions = await this.loadPackage(eco, object): up to the await
Request(o) == [o EXCEPT !.pc = "inflight", !.requested = TRUE]

\* a faulty variant of SameDate: the snapshot is never consulted
SameDateNever(cache, o) == FALSE

\* date === this.searchCache.packages[name]
SameDate(cache, o) == o.date = cache.packages[o.name]

\* loadEcosystem's map callback up to its first await.
\*   remote:   if (object.ignored) return; then loadPackage issues the request
\*   part_001: date === this.searchCache.packages[name] throws a TypeError while
\*             searchCache has no packages; an equal date is answered from
\*             legacyResult; otherwise loadPackage issues the request
\* Fewer than Concurrency requests exist in a crawl of these bounds, so the
\* queue starts each one at once (SpecGate has the full gate).
StartObject(r, cache, legacy, o) ==
  IF r = "remote"
  THEN IF o.ignored THEN [o EXCEPT !.pc = "settled"] ELSE Request(o)
  ELSE IF ~cache.loaded THEN Call(o, "onFailure", "object")
  ELSE IF SameDate(cache, o)
       THEN IF o.name \in legacy THEN Call(o, "onSuccess", "legacy")
            ELSE Call(o, "onSkipped", "object")
  ELSE Request(o)

\* the rest of the map callback, once loadPackage has returned or thrown
Dispatch(r, o, res) ==
  LET w == [o EXCEPT !.ecosystem = res.ecosystem, !.shortname = res.shortname,
                     !.manifestEco = res.manifestEco,
                     !.createdAt = res.createdAt, !.updatedAt = res.updatedAt]
      flagged == IF r = "remote" THEN [w EXCEPT !.ignored = TRUE] ELSE w
  IN IF res.kind = "ok" THEN Call(w, "onSuccess", "object")
     ELSE IF res.kind = "skip" THEN Call(flagged, "onSkipped", "object")
     ELSE Call(flagged, "onFailure", "object")

\* the request of loadPackage rejected (timeout, network error; in part_001 also
\* the ReferenceError of the unbound name in `/${name}`)
Rejected == [kind |-> "throw"] @@ Untouched

TaskIds == DOMAIN ecoTasks
RECURSIVE CountObjects(_)
CountObjects(t) == IF t = 0 THEN 0 ELSE Len(ecoTasks[t].objects) + CountObjects(t - 1)
\* a faulty variant of Settled: the barrier lets go at once
SettledAny(t) == TRUE
\* every promise of objects.map(...) has settled
Settled(t) == \A i \in DOMAIN ecoTasks[t].objects : ecoTasks[t].objects[i].pc = "settled"

\* _initCache (part_001)
InitCache ==
  /\ rev = "part_001" /\ collectPc = "idle"
  /\ collectPc' = "ready"
  /\ IF cacheFile.dir /\ cacheFile.readable
        /\ cacheFile.version = SearchCacheVersion /\ cacheFile.registry = "same"
     THEN /\ searchCache' = [loaded |-> TRUE, packages |-> cacheFile.packages]
          /\ legacyResult' = cacheFile.legacy
     ELSE UNCHANGED <<searchCache, legacyResult>>
  /\ UNCHANGED <<rev, cacheFile, tasks, batch, ecoTasks>>
  /\ CrawlOnly

\* collect: tasks.push(this.loadEcosystem(Ecosystem.INIT)), the first splice(0)
CollectStart ==
  /\ collectPc = (IF rev = "remote" THEN "idle" ELSE "ready")
  /\ ecoTasks' = <<[NewTask("INIT") EXCEPT !.rounds = 1]>>
  /\ tasks' = <<>>
  /\ batch' = {1}
  /\ collectPc' = "awaiting"
  /\ UNCHANGED <<rev, cacheFile, searchCache, legacyResult>>
  /\ CrawlOnly

\* await this.search(eco) rejects: a page request timed out or failed
SearchFail(t) ==
  /\ ecoTasks[t].status = "searching"
  /\ ecoTasks' = [ecoTasks EXCEPT ![t].status = "rejected"]
  /\ UNCHANGED <<rev, cacheFile, searchCache, legacyResult, collectPc, tasks, batch>>
  /\ CrawlOnly

\* await this.search(eco) resolves; objects.map(...) starts every hit
SearchResolve(t) ==
  /\ ecoTasks[t].status = "searching"
  /\ \E S \in SUBSET Names : \E f \in [S -> HitInputs(rev)] :
       /\ CountObjects(Len(ecoTasks)) + Cardinality(S) <= MaxObjects
       /\ LET found == SelectSeq(NameOrder, LAMBDA n : n \in S)
              objects == [i \in 1..Len(found) |->
                            StartObject(rev, searchCache, legacyResult,
                                        NewObject(found[i], f[found[i]].date, f[found[i]].ignored))]
          IN ecoTasks' = [ecoTasks EXCEPT ![t].status = "loading", ![t].objects = objects]
  /\ UNCHANGED <<rev, cacheFile, searchCache, legacyResult, collectPc, tasks, batch>>
  /\ CrawlOnly

\* the metadata request of hit i of task t settles; loadPackage and the map
\* callback run to their end
FetchRespond(t, i) ==
  /\ ecoTasks[t].status = "loading"
  /\ i \in DOMAIN ecoTasks[t].objects
  /\ ecoTasks[t].objects[i].pc = "inflight"
  /\ \E res \in {Rejected} \cup {loadPackage(rev, ecoTasks[t].eco, doc) : doc \in CrawlDocs} :
       LET o == Dispatch(rev, ecoTasks[t].objects[i], res)
           done == [ecoTasks EXCEPT ![t].objects[i] = o]
       IN IF res.pushed = None
          THEN ecoTasks' = done /\ tasks' = tasks
          ELSE /\ Len(ecoTasks) < MaxTasks
               /\ ecoTasks' = Append(done, NewTask(res.pushed))
               /\ tasks' = Append(tasks, Len(ecoTasks) + 1)
  /\ UNCHANGED <<rev, cacheFile, searchCache, legacyResult, collectPc, batch>>
  /\ CrawlOnly

\* Promise.all(objects.map(...)) of loadEcosystem resolves
TaskResolve(t) ==
  /\ ecoTasks[t].status = "loading"
  /\ Settled(t)
  /\ ecoTasks' = [ecoTasks EXCEPT ![t].status = "resolved"]
  /\ UNCHANGED <<rev, cacheFile, searchCache, legacyResult, collectPc, tasks, batch>>
  /\ CrawlOnly

\* a faulty variant of CollectRound: one drain round only (if in place of while)
CollectRoundOnce ==
  /\ collectPc = "awaiting"
  /\ \A t \in batch : ecoTasks[t].status = "resolved"
  /\ collectPc' = "done"
  /\ UNCHANGED <<rev, cacheFile, searchCache, legacyResult, tasks, batch, ecoTasks>>
  /\ CrawlOnly

\* collect: the awaited Promise.all resolves; while (this.tasks.length) again
CollectRound ==
  /\ collectPc = "awaiting"
  /\ \A t \in batch : ecoTasks[t].status = "resolved"
  /\ IF Len(tasks) > 0
     THEN /\ batch' = {tasks[k] : k \in DOMAIN tasks}
          /\ tasks' = <<>>
          /\ ecoTasks' = [t \in DOMAIN ecoTasks |->
                            IF \E k \in DOMAIN tasks : tasks[k] = t
                            THEN [ecoTasks[t] EXCEPT !.rounds = @ + 1]
                            ELSE ecoTasks[t]]
          /\ UNCHANGED collectPc
     ELSE /\ collectPc' = "done"
          /\ UNCHANGED <<tasks, batch, ecoTasks>>
  /\ UNCHANGED <<rev, cacheFile, searchCache, legacyResult>>
  /\ CrawlOnly

\* collect: the awaited Promise.all rejects with the first rejected loadEcosystem
CollectReject ==
  /\ collectPc = "awaiting"
  /\ \E t \in batch : ecoTasks[t].status = "rejected"
  /\ collectPc' = "rejected"
  /\ UNCHANGED <<rev, cacheFile, searchCache, legacyResult, tasks, batch, ecoTasks>>
  /\ CrawlOnly

\* the other specifications' variables, at rest during a crawl
IdleSearch ==
  /\ sCfg = [step |-> 1, margin |-> 0] /\ sMode = "stable" /\ sIndex = 0 /\ sPc = "idle"
  /\ sTotal = 0 /\ sCache = <<>> /\ sOffset = 0 /\ sReqs = <<>> /\ sReceived = 0
IdleSelect == selDoc = Doc({}, <<>>, "no") /\ selLatest = [done |-> FALSE, latest |-> <<>>]
IdleGate == gArrived = 0 /\ gQueue = <<>> /\ gPending = [e \in Ecos |-> 0] /\ gDone = 0
IdleLoad ==
  /\ ldIn = [eco |-> "INIT", doc |-> Doc({}, <<>>, "no"), fetch |-> "responds", name |-> "bound"]
  /\ ldOut = [done |-> FALSE, res |-> Rejected, object |-> NewObject("a", 1, FALSE)]
\* SpecLocal: the keys this.pkgTasks can get, and no loadPackage call yet
LocalKeys == {<<"a">>, <<"b">>, <<"a", "foo">>}
NoCalls == [k \in LocalKeys |-> [loads |-> 0, success |-> 0]]
IdleLocal ==
  /\ lcCandidates = <<>> /\ lcEcosystems = <<>> /\ lcVisited = <<>> /\ lcTasks = {}
  /\ lcCache = {} /\ lcPc = "idle" /\ lcCalls = NoCalls /\ lcCollects = 0
\* SpecTerm: the ecosystems of the registry, and a registry without packages
TermEcos == Ecos \cup {"y"}
NoRegistry == [hits |-> [e \in TermEcos |-> {}], declares |-> [n \in Names |-> None]]
IdleTerm ==
  /\ tmScanner = "remote" /\ tmRegistry = NoRegistry /\ tmTasks = {} /\ tmBatch = {}
  /\ tmEcosystems = <<>> /\ tmCurrent = None /\ tmPc = "idle"
NoFiles == [cache |-> None, index |-> None, portable |-> None]
\* names and dates of a listing: 0 is the date of a name the listing lacks
CheckNames == {"p", "q"}
NoListing == [n \in CheckNames |-> 0]
\* what getLegacy returns when outdir holds no readable snapshot: no version
\* (0), no forceTime (<<>>), no objects
NoSnapshot == [version |-> 0, forceTime |-> <<>>, dates |-> NoListing]
IdleIndex ==
  ixObjects = <<>> /\ ixShortnames = {} /\ ixPc = "idle" /\ ixFiles = NoFiles
IdleCheckAll ==
  /\ ckIn = [legacy |-> NoSnapshot, latest |-> NoListing, now |-> 0, collect |-> "resolves"]
  /\ ckOut = [pc |-> "idle", shouldUpdate |-> FALSE, forceUpdate |-> None,
              forceTime |-> <<>>, examined |-> {}]
IdleBundle == bnIn = <<>> /\ bnItems = <<>> /\ bnTasks = <<>> /\ bnLog = {} /\ bnPc = "idle"
\* SpecStart: the files generate writes, an output directory holding
\* nothing, and no run
OutFiles == {"cache.json", "index.json", "portable.json", "insecure.txt", "analytics.json"}
EmptyDisk ==
  [cache |-> <<>>, cacheJson |-> <<>>, stamps |-> [f \in OutFiles |-> 0], output |-> 0,
   modules |-> <<>>]
NoRun ==
  [n |-> 0, pc |-> "idle", legacy |-> NoSnapshot, shouldUpdate |-> FALSE,
   forceTime |-> <<>>, steps |-> {}, before |-> EmptyDisk,
   prev |-> [generated |-> FALSE, listing |-> NoListing]]
IdleStart == stDisk = EmptyDisk /\ stListing = NoListing /\ stNow = 0 /\ stRun = NoRun
IdleSync == IdleIndex /\ IdleCheckAll /\ IdleBundle /\ IdleStart
IdleCrawl ==
  /\ rev = "remote" /\ cacheFile = NoCacheFile /\ searchCache = EmptySearchCache
  /\ legacyResult = {} /\ collectPc = "idle" /\ tasks = <<>> /\ batch = {}
  /\ ecoTasks = <<>>

Init ==
  /\ rev \in Revisions
  /\ cacheFile \in (IF rev = "part_001" THEN CacheFiles ELSE {NoCacheFile})
  /\ searchCache = EmptySearchCache
  /\ legacyResult = {}
  /\ collectPc = "idle"
  /\ tasks = <<>>
  /\ batch = {}
  /\ ecoTasks = <<>>
  /\ IdleSearch /\ IdleSelect /\ IdleGate /\ IdleLoad /\ IdleLocal /\ IdleTerm /\ IdleSync

Next ==
  \/ InitCache
  \/ CollectStart
  \/ \E t \in TaskIds : SearchFail(t)
  \/ \E t \in TaskIds : SearchResolve(t)
  \/ \E t \in TaskIds : \E i \in 1..Cardinality(Names) : FetchRespond(t, i)
  \/ \E t \in TaskIds : TaskResolve(t)
  \/ CollectRound
  \/ CollectReject

Spec == Init /\ [][Next]_vars

(***************************************************************************)
(* Claims about the crawl (specification Spec).                            *)
(***************************************************************************)
Objects == {<<t, i>> \in TaskIds \X (1..Cardinality(Names)) : i \in DOMAIN ecoTasks[t].objects}
Obj(p) == ecoTasks[p[1]].objects[p[2]]
\* the hits whose loadPackage pushed a loadEcosystem call
Declared == {p \in Objects : Obj(p).manifestEco # None}

\* C1: every hit a search returned gets exactly one of onSuccess, onSkipped,
\* onFailure, exactly once: never two calls, and one call once its map
\* callback has finished.
C1_ExactlyOneCallback ==
  \A p \in Objects :
    /\ Len(Obj(p).calls) <= 1
    /\ Obj(p).pc = "settled" => Len(Obj(p).calls) = 1

\* C2: when collect() has returned, no loadEcosystem promise is left in the
\* worklist, every loadEcosystem call has resolved with all its per-hit tasks
\* finished, and every sub-ecosystem a classified package declared has its
\* own, finished, loadEcosystem call.
C2_CollectReturnsAfterAllTasks ==
  collectPc = "done" =>
    /\ tasks = <<>>
    /\ \A t \in TaskIds : ecoTasks[t].status = "resolved" /\ Settled(t)
    /\ Len(ecoTasks) = 1 + Cardinality(Declared)
    /\ \A p \in Declared :
         \E t \in TaskIds : t > p[1] /\ ecoTasks[t].eco = Obj(p).manifestEco
                            /\ ecoTasks[t].status = "resolved"

\* C2 witness: collect() has returned after a sub-ecosystem's own hit declared
\* a further ecosystem, which took one more drain round.
C2_Witness ==
  /\ collectPc = "done"
  /\ Len(ecoTasks) = 3
  /\ \E p \in Declared : p[1] >= 2

\* C3: a loadEcosystem call appended to the worklist is taken by exactly one
\* drain round (none is lost, none is awaited twice), and no ecosystem is
\* processed more than once in a crawl.
C3_EachEcosystemOnce ==
  /\ \A t \in TaskIds : ecoTasks[t].rounds <= 1
  /\ collectPc = "done" => \A t \in TaskIds : ecoTasks[t].rounds = 1
  /\ \A t1, t2 \in TaskIds : t1 # t2 => ecoTasks[t1].eco # ecoTasks[t2].eco

\* C5: once an ecosystem's hits have all been processed, a hit that ended in
\* failure has left every sibling with its own outcome callback, and the
\* loadEcosystem call has not rejected because of it.
C5_FailureLeavesSiblings ==
  \A t \in TaskIds :
    (ecoTasks[t].status # "searching" /\ Settled(t)) =>
      \A i, j \in DOMAIN ecoTasks[t].objects :
        (i # j /\ ecoTasks[t].objects[i].calls = <<"onFailure">>) =>
          Len(ecoTasks[t].objects[j].calls) = 1

\* C6: a request that times out (a search page or a metadata fetch) never makes
\* collect() reject and never rejects a loadEcosystem call: it shows only as
\* the onFailure of one hit.
C6_TimeoutIsPerObject ==
  /\ collectPc # "rejected"
  /\ \A t \in TaskIds : ecoTasks[t].status # "rejected"

(***************************************************************************)
(* SpecSearch: search / _search against one search endpoint.               *)
(*   sCfg      { step, margin } of the run                                 *)
(*   sMode     "stable": the endpoint serves the windows of one fixed list *)
(*             of sIndex names (0 .. sIndex-1) and reports total = sIndex; *)
(*             "shifting": the listing changes between calls: the first    *)
(*             page reports any total, and every page is any list of at    *)
(*             most size names, in any order and with repetitions          *)
(*   sCache    the keys of cache, in insertion order (Object.values order) *)
(*   sTotal    const total: what the first _search returned                *)
(*   sOffset   the loop variable offset                                    *)
(*   sReqs     the page requests issued so far, as [from, size]            *)
(*   sReceived the number of objects received over all pages               *)
(***************************************************************************)
SearchOnly == UNCHANGED <<crawlVars, selectVars, gateVars, loadVars, localVars, termVars, syncVars>>

Range(q) == {q[k] : k \in DOMAIN q}

\* a faulty variant of IsNewKey: cache kept as a list, every object pushed
IsNewKeyAlways(keys, name) == TRUE

\* cache[object.package.name] = object adds a key only when name is not one yet
IsNewKey(keys, name) == name \notin Range(keys)

\* for (const object of result.objects) cache[object.package.name] = object:
\* the keys of cache afterwards, each new name appended at its first assignment
FillCache(cache, objects) ==
  LET first == SelectSeq([k \in 1..Len(objects) |-> k],
                         LAMBDA k : IsNewKey(cache \o SubSeq(objects, 1, k - 1), objects[k]))
  IN cache \o [i \in 1..Len(first) |-> objects[first[i]]]

\* a faulty variant of PageFrom: the next window starts where the last one ended
PageFromNoMargin(cfg, offset) == offset

\* the from= of a further page: this._search(eco, cache, offset - margin)
PageFrom(cfg, offset) == offset - cfg.margin

\* a faulty variant of Advance: offset += step
AdvanceNoMargin(cfg, offset) == offset + cfg.step

\* offset += step - margin
Advance(cfg, offset) == offset + cfg.step - cfg.margin

\* the window [from, from + size) of the stable endpoint's list
StablePage(from, size) ==
  LET lo == IF from < 0 THEN 0 ELSE from
      hi == IF from + size < sIndex THEN from + size ELSE sIndex
  IN [k \in 1..(IF hi > lo THEN hi - lo ELSE 0) |-> lo + k - 1]

RECURSIVE SeqsUpTo(_)
SeqsUpTo(n) ==
  IF n = 0 THEN {<<>>}
  ELSE LET shorter == SeqsUpTo(n - 1)
       IN shorter \cup {Append(q, x) : q \in {r \in shorter : Len(r) = n - 1}, x \in ShiftNames}

\* the objects the endpoint may answer a page request with
Pages(from, size) ==
  IF sMode = "stable" THEN {StablePage(from, size)}
  ELSE SeqsUpTo(IF size < MaxStep THEN size ELSE MaxStep)

\* the totals the endpoint may report
Totals == IF sMode = "stable" THEN {sIndex} ELSE 0..MaxTotal

Min(a, b) == IF a < b THEN a ELSE b

\* const total = await this._search(eco, cache, 0); offset = Object.values(cache).length
SearchFirst ==
  /\ sPc = "first"
  /\ \E objects \in Pages(0, sCfg.step) : \E total \in Totals :
       /\ IF sMode = "stable" THEN Len(objects) = Min(sCfg.step, total)
                              ELSE Len(objects) <= Min(sCfg.step, total)
       /\ sCache' = FillCache(<<>>, objects)
       /\ sTotal' = total
       /\ sOffset' = Len(FillCache(<<>>, objects))
       /\ sReceived' = Len(objects)
  /\ sReqs' = <<[from |-> 0, size |-> sCfg.step]>>
  /\ sPc' = "loop"
  /\ UNCHANGED <<sCfg, sMode, sIndex>>
  /\ SearchOnly

\* offset < total: await this._search(eco, cache, offset - margin); offset += step - margin
SearchPage ==
  /\ sPc = "loop"
  /\ sOffset < sTotal
  /\ \E objects \in Pages(PageFrom(sCfg, sOffset), sCfg.step) :
       /\ sCache' = FillCache(sCache, objects)
       /\ sReceived' = sReceived + Len(objects)
  /\ sReqs' = Append(sReqs, [from |-> PageFrom(sCfg, sOffset), size |-> sCfg.step])
  /\ sOffset' = Advance(sCfg, sOffset)
  /\ UNCHANGED <<sCfg, sMode, sIndex, sPc, sTotal>>
  /\ SearchOnly

\* !(offset < total): return Object.values(cache)
SearchReturn ==
  /\ sPc = "loop"
  /\ ~(sOffset < sTotal)
  /\ sPc' = "done"
  /\ UNCHANGED <<sCfg, sMode, sIndex, sTotal, sCache, sOffset, sReqs, sReceived>>
  /\ SearchOnly

\* the page request about to be issued rejects (timeout, network error)
SearchReject ==
  /\ sPc = "first" \/ (sPc = "loop" /\ sOffset < sTotal)
  /\ sPc' = "failed"
  /\ UNCHANGED <<sCfg, sMode, sIndex, sTotal, sCache, sOffset, sReqs, sReceived>>
  /\ SearchOnly

DefaultConfig == [step |-> DefaultStep, margin |-> DefaultMargin]
\* listing lengths tried with the default configuration
DefaultTotals == {0, 249, 250, 251, 300, 475, 476, 500}

InitSearch ==
  /\ IdleCrawl /\ IdleSelect /\ IdleGate /\ IdleLoad /\ IdleLocal /\ IdleTerm /\ IdleSync
  /\ \/ /\ sCfg \in {[step |-> st, margin |-> m] : st \in 1..MaxStep, m \in 0..(MaxStep - 1)}
        /\ sCfg.margin < sCfg.step
        /\ sMode \in {"stable", "shifting"}
        /\ sIndex \in (IF sMode = "stable" THEN 0..MaxTotal ELSE {0})
     \/ /\ sCfg = DefaultConfig
        /\ sMode = "stable"
        /\ sIndex \in DefaultTotals
  /\ sPc = "first"
  /\ sTotal = 0 /\ sCache = <<>> /\ sOffset = 0 /\ sReqs = <<>> /\ sReceived = 0

NextSearch == SearchFirst \/ SearchPage \/ SearchReturn \/ SearchReject

SpecSearch == InitSearch /\ [][NextSearch]_vars

\* C7: the list search() returns holds no two hits of the same name, whatever
\* the pages overlap, repeat or reorder. (sCache is the list at every moment.)
C7_NoDuplicateNames ==
  \A i, j \in DOMAIN sCache : i # j => sCache[i] # sCache[j]

\* C7 witness: search() has returned after several pages of a shifting endpoint
\* that sent some name more than once.
C7_Witness ==
  sPc = "done" /\ sMode = "shifting" /\ Len(sReqs) >= 2 /\ sReceived > Len(sCache)

\* C8: with step 250 and margin 25 against an endpoint reporting total 300,
\* search() issues exactly two page requests, from=0 and from=225, both size=250.
C8_TwoPagesAt0And225 ==
  (sCfg = DefaultConfig /\ sIndex = 300 /\ sPc = "done") =>
    sReqs = <<[from |-> 0, size |-> 250], [from |-> 225, size |-> 250]>>

\* C8 witness: that search has returned.
C8_Witness == sCfg = DefaultConfig /\ sIndex = 300 /\ sPc = "done" /\ Len(sCache) = 300

C31_OffsetsAreNonNegative ==
  \A k \in DOMAIN sReqs : sReqs[k].from >= 0

(***************************************************************************)
(* SpecSelect: the version loadPackage selects, over every registry        *)
(* document with versions among 1.0.0, 1.1.0, 2.0.0, each deprecated or    *)
(* not, and every dist-tag (none, one of the three, a missing 3.0.0).      *)
(*   selDoc     the document                                               *)
(*   selLatest  [done, latest]: latest is <<>> while loadPackage has none  *)
(***************************************************************************)
SelectOnly == UNCHANGED <<tasks, batch, ecoTasks, collectPc, cacheFile, searchCache,
                          legacyResult, searchVars, gateVars, loadVars, localVars, termVars, syncVars>>

SelectVersions == {<<1, 0, 0>>, <<1, 1, 0>>, <<2, 0, 0>>}
SelectTags == SelectVersions \cup {<<>>, <<3, 0, 0>>}
SelectDocs ==
  { Doc({V(v, dep[v], Everywhere, None, 1) : v \in present}, tag, "no") :
      present \in SUBSET SelectVersions, dep \in [SelectVersions -> BOOLEAN], tag \in SelectTags }

InitSelect ==
  /\ rev \in Revisions
  /\ cacheFile = NoCacheFile /\ searchCache = EmptySearchCache
  /\ legacyResult = {} /\ collectPc = "idle" /\ tasks = <<>> /\ batch = {}
  /\ ecoTasks = <<>>
  /\ IdleSearch /\ IdleGate /\ IdleLoad /\ IdleLocal /\ IdleTerm /\ IdleSync
  /\ selDoc \in SelectDocs
  /\ selLatest = [done |-> FALSE, latest |-> <<>>]

\* loadPackage up to const latest
Select ==
  /\ ~selLatest.done
  /\ selLatest' = [done |-> TRUE, latest |-> Latest(rev, selDoc)]
  /\ UNCHANGED <<rev, selDoc>>
  /\ SelectOnly

NextSelect == Select

SpecSelect == InitSelect /\ [][NextSelect]_vars

\* the highest version of a document that is not deprecated, <<>> if none
HighestValid(doc) ==
  LET valid == {x \in doc.versions : ~x.deprecated}
  IN IF valid = {} THEN <<>>
     ELSE <<CHOOSE x \in valid : \A y \in valid : compare(y.v, x.v) <= 0>>

\* C10: loadPackage takes as latest the highest version that is not
\* deprecated, whatever the dist-tag says (1.0.0, 1.1.0 deprecated, 2.0.0
\* gives 2.0.0; with 2.0.0 deprecated and 1.1.0 not, 1.1.0).
C10_LatestIsHighestValid ==
  selLatest.done => selLatest.latest = HighestValid(selDoc)

(***************************************************************************)
(* SpecGate: the queue of loadPackage, one PQueue({ concurrency: 10 }) per *)
(* scanner, under the loadPackage calls of every ecosystem.                *)
(*   gArrived  loadPackage calls made so far                               *)
(*   gQueue    calls waiting in the queue, by ecosystem, oldest first      *)
(*   gPending  per ecosystem, the metadata requests in flight              *)
(*   gDone     requests settled                                            *)
(***************************************************************************)
GateOnly == UNCHANGED <<crawlVars, searchVars, selectVars, loadVars, localVars, termVars, syncVars>>

InFlight == gPending["INIT"] + gPending["x"]

\* a faulty variant of HasRoom: one gate per ecosystem
HasRoomPerEcosystem(e) == gPending[e] < Concurrency

\* the queue starts a task while fewer than concurrency are running
HasRoom(e) == InFlight < Concurrency

\* loadPackage: this.queue.add(() => this.request(`/${name}`))
GateAdd(e) ==
  /\ gArrived < MaxLoads
  /\ gArrived' = gArrived + 1
  /\ IF HasRoom(e)
     THEN gPending' = [gPending EXCEPT ![e] = @ + 1] /\ UNCHANGED gQueue
     ELSE gQueue' = Append(gQueue, e) /\ UNCHANGED gPending
  /\ UNCHANGED gDone
  /\ GateOnly

\* a request settles (response, error or timeout); the queue starts the next
GateSettle(e) ==
  /\ gPending[e] > 0
  /\ gDone' = gDone + 1
  /\ IF gQueue = <<>>
     THEN gPending' = [gPending EXCEPT ![e] = @ - 1] /\ UNCHANGED gQueue
     ELSE /\ gPending' = [f \in Ecos |->
                            gPending[f] - (IF f = e THEN 1 ELSE 0)
                                        + (IF f = Head(gQueue) THEN 1 ELSE 0)]
          /\ gQueue' = Tail(gQueue)
  /\ UNCHANGED gArrived
  /\ GateOnly

InitGate == IdleCrawl /\ IdleSearch /\ IdleSelect /\ IdleGate /\ IdleLoad /\ IdleLocal /\ IdleTerm /\ IdleSync

NextGate == \E e \in Ecos : GateAdd(e) \/ GateSettle(e)

SpecGate == InitGate /\ [][NextGate]_vars

\* C4: at every moment at most 10 package-metadata requests are in flight,
\* counted over all ecosystems.
C4_AtMostTenInFlight == InFlight <= 10

\* C4 witness: ten requests of two ecosystems are in flight and a further
\* loadPackage call waits in the queue.
C4_Witness ==
  InFlight = 10 /\ gPending["INIT"] > 0 /\ gPending["x"] > 0 /\ Len(gQueue) > 0

(***************************************************************************)
(* SpecLoad: one hit of loadEcosystem(eco), from the metadata request of   *)
(* loadPackage to the outcome callback.                                    *)
(*   ldIn   [eco, doc, fetch, name]: the ecosystem searched, the registry  *)
(*          document of the package, whether the request "responds" or     *)
(*          meets a "timeout", and whether the identifier name is "bound"  *)
(*          where loadPackage builds the request path                      *)
(*   ldOut  [done, res, object]: what loadPackage returned or threw, and   *)
(*          the hit after its callback                                     *)
(***************************************************************************)
LoadOnly == UNCHANGED <<tasks, batch, ecoTasks, collectPc, cacheFile, searchCache,
                        legacyResult, searchVars, selectVars, gateVars, localVars, termVars, syncVars>>

LoadVersions == {<<1, 0, 0>>, <<2, 0, 0>>}
\* a version of a document: deprecated or not, member of every ecosystem or of
\* none, declaring the sub-ecosystem x or none, published at one of times
LoadVersion(v, times) ==
  { V(v, dep, mem, dec, t) :
      dep \in BOOLEAN, mem \in {Everywhere, {}}, dec \in {None, "x"}, t \in times }
\* no version, 1.0.0 alone, or 1.0.0 and 2.0.0 published in either order
LoadVersionSets ==
  {{}} \cup { {a} : a \in LoadVersion(<<1, 0, 0>>, {1}) }
       \cup { {a, b} : a \in LoadVersion(<<1, 0, 0>>, {1, 3}), b \in LoadVersion(<<2, 0, 0>>, {2}) }
\* the registry documents a metadata request may be answered with
LoadDocs ==
  { Doc(S, tag, "no") : S \in LoadVersionSets, tag \in LoadVersions \cup {<<>>} }
  \cup { Doc({}, <<>>, "versions"),
         Doc({V(<<1, 0, 0>>, FALSE, Everywhere, "x", 1)}, <<>>, "dist-tags"),
         Doc({V(<<1, 0, 0>>, FALSE, Everywhere, "x", 1)}, <<1, 0, 0>>, "time") }

\* await this.queue.add(() => this.request(`/${object.package.name}`)) and the
\* rest of loadPackage. part_001 builds the path from an identifier name that
\* loadPackage does not declare: unbound, evaluating it throws a ReferenceError
\* inside the queued function and the request is never issued.
LoadOutcome(r, in) ==
  IF r = "part_001" /\ in.name = "unbound" THEN Rejected
  ELSE IF in.fetch = "timeout" THEN Rejected
  ELSE loadPackage(r, in.eco, in.doc)

InitLoad ==
  /\ rev \in Revisions
  /\ cacheFile = NoCacheFile /\ searchCache = EmptySearchCache
  /\ legacyResult = {} /\ collectPc = "idle" /\ tasks = <<>> /\ batch = {}
  /\ ecoTasks = <<>>
  /\ IdleSearch /\ IdleSelect /\ IdleGate /\ IdleLocal /\ IdleTerm /\ IdleSync
  /\ ldIn \in [eco : Ecos, doc : LoadDocs, fetch : {"responds", "timeout"},
               name : (IF rev = "part_001" THEN {"bound", "unbound"} ELSE {"bound"})]
  /\ ldOut = [done |-> FALSE, res |-> Rejected, object |-> NewObject("a", 1, FALSE)]

\* the map callback of loadEcosystem for a hit that reaches loadPackage
Load ==
  /\ ~ldOut.done
  /\ LET res == LoadOutcome(rev, ldIn)
     IN ldOut' = [done |-> TRUE, res |-> res,
                  object |-> Dispatch(rev, Request(NewObject("a", 1, FALSE)), res)]
  /\ UNCHANGED <<rev, ldIn>>
  /\ LoadOnly

NextLoad == Load

SpecLoad == InitLoad /\ [][NextLoad]_vars

\* the package of the hit has no version that is not deprecated, or the
\* version loadPackage selected is no member of the ecosystem searched
Ineligible ==
  \/ HighestValid(ldIn.doc) = <<>>
  \/ /\ Latest(rev, ldIn.doc) # <<>>
     /\ Ecosystem_check(ldIn.eco, Latest(rev, ldIn.doc)[1]) = None

\* C11: a hit whose metadata was requested and arrived complete, and whose
\* package has no non-deprecated version or whose selected version is no
\* member of the ecosystem, ends in onSkipped and not in onFailure: nothing
\* is thrown, no sub-ecosystem is pushed, and the hit has no shortname,
\* manifest or ecosystem.
C11_IneligibleIsSkipped ==
  (ldOut.done /\ ldIn.fetch = "responds" /\ ldIn.doc.malformed = "no" /\ Ineligible) =>
    /\ ldOut.object.calls = <<"onSkipped">>
    /\ ldOut.res.kind = "skip"
    /\ ldOut.res.pushed = None
    /\ ldOut.object.shortname = None
    /\ ldOut.object.manifestEco = None
    /\ ldOut.object.ecosystem = None

(***************************************************************************)
(* Claims about the snapshot of part_001 (specification Spec).             *)
(***************************************************************************)
\* the hits whose date is the one the trusted snapshot recorded for their name
Unchanged ==
  {p \in Objects : searchCache.loaded /\ Obj(p).date = searchCache.packages[Obj(p).name]}

\* C12: with a trusted snapshot, a hit whose date equals the date the snapshot
\* recorded for its name never has a metadata request issued: it is settled
\* at once, by onSuccess with the snapshot's record of that name when there
\* is one, by onSkipped otherwise, and loadPackage wrote nothing on it.
C12_UnchangedHitIsNotFetched ==
  \A p \in Unchanged :
    /\ Obj(p).pc = "settled"
    /\ Obj(p).shortname = None /\ Obj(p).createdAt = 0
    /\ IF Obj(p).name \in legacyResult
       THEN Obj(p).calls = <<"onSuccess">> /\ Obj(p).arg = "legacy"
       ELSE Obj(p).calls = <<"onSkipped">> /\ Obj(p).arg = "object"

\* C12 witness: collect() has returned after one search gave an unchanged hit
\* with a previous record and an unchanged hit without one, and a changed hit
\* went through loadPackage.
C12_Witness ==
  /\ collectPc = "done"
  /\ \E p, q \in Unchanged : Obj(p).name \in legacyResult /\ Obj(q).name \notin legacyResult
  /\ \E p \in Objects \ Unchanged : Len(Obj(p).calls) = 1

\* _initCache found cache.json and index.json, of another format version or
\* of another registry
Incompatible ==
  /\ cacheFile.dir /\ cacheFile.readable
  /\ cacheFile.version # SearchCacheVersion \/ cacheFile.registry # "same"

\* C13: the snapshot is in use only when its format version and its registry
\* both match; when one differs, no hit is answered from the snapshot and
\* loadPackage is called for every hit.
C13_OnlyMatchingSnapshotIsUsed ==
  /\ searchCache.loaded =>
       cacheFile.version = SearchCacheVersion /\ cacheFile.registry = "same"
  /\ (rev = "part_001" /\ Incompatible) =>
       \A p \in Objects : Obj(p).arg # "legacy" /\ Obj(p).requested

\* _initCache finds a snapshot it can use: both files readable, format
\* version and registry matching
Trusted ==
  /\ cacheFile.dir /\ cacheFile.readable
  /\ cacheFile.version = SearchCacheVersion /\ cacheFile.registry = "same"

\* C14: without a usable snapshot (none configured, unreadable, or of another
\* format version or registry) the crawl is a full crawl: loadPackage is
\* called for every hit, and no hit fails before its metadata is requested.
C14_NoSnapshotIsFullCrawl ==
  (rev = "part_001" /\ ~Trusted) =>
    \A p \in Objects : Obj(p).requested

\* C29: for an unchanged registry a crawl with a trusted snapshot searches
\* the ecosystems a crawl without one searches: when collect() has returned,
\* every sub-ecosystem declared by a package whose hit was answered from the
\* snapshot has been searched.
C29_SnapshotRunSearchesDeclared ==
  (rev = "part_001" /\ collectPc = "done") =>
    \A p \in Unchanged :
      (Obj(p).arg = "legacy" /\ cacheFile.declares[Obj(p).name] # None) =>
        \E t \in TaskIds : ecoTasks[t].eco = cacheFile.declares[Obj(p).name]

(***************************************************************************)
(* Further claims about one hit (specification SpecLoad).                  *)
(***************************************************************************)
\* C15: a hit that loadPackage classified (onSuccess with the hit itself)
\* carries as ecosystem the name of the ecosystem whose search produced it.
C15_EcosystemOfItsSearch ==
  (ldOut.done /\ ldOut.object.calls = <<"onSuccess">>) =>
    ldOut.object.ecosystem = ldIn.eco

(***************************************************************************)
(* SpecIndex: Synchronizer.analyze, bundleAll and generate over the        *)
(* objects of the scanner.                                                 *)
(*   ixObjects     this.scanner.objects, each                              *)
(*                 [name, ecosystem, shortname, verified, classified,      *)
(*                  ignored, ignored0, hidden, insecure, portable]:        *)
(*                 classified says that the scanner called onSuccess for   *)
(*                 it, ignored0 is ignored as it was before analyze,       *)
(*                 hidden is manifest.hidden; insecure and portable are    *)
(*                 "true", "false" or None for undefined                   *)
(*   ixShortnames  const shortnames of analyze                             *)
(*   ixPc          the step of start() that comes next                     *)
(*   ixFiles       the objects written to cache.json, index.json and       *)
(*                 portable.json (None: not written)                       *)
(***************************************************************************)
IndexOnly == UNCHANGED <<crawlVars, searchVars, selectVars, gateVars, loadVars, localVars, termVars, checkVars, bundleVars, startVars>>

SyncNames == <<"p", "q">>
Shortnames == {"foo", "bar"}

\* what the scanner may hand to the Synchronizer for one package: a package
\* it classified has a shortname; one it failed on may have one or not
SyncObjects(name) ==
  { [name |-> name, ecosystem |-> e, shortname |-> sh, verified |-> v, classified |-> c,
     ignored |-> ig, ignored0 |-> ig, hidden |-> h, insecure |-> ins, portable |-> None] :
      e \in Ecos, sh \in Shortnames \cup {None}, v \in BOOLEAN, c \in BOOLEAN,
      ig \in BOOLEAN, h \in BOOLEAN, ins \in {None, "true"} }

InitIndex ==
  /\ IdleCrawl /\ IdleSearch /\ IdleSelect /\ IdleGate /\ IdleLoad /\ IdleLocal /\ IdleTerm /\ IdleCheckAll /\ IdleBundle /\ IdleStart
  /\ ixObjects \in { q \in [1..Len(SyncNames) -> UNION {SyncObjects(SyncNames[k]) : k \in 1..Len(SyncNames)}] :
                       \A k \in 1..Len(SyncNames) :
                         /\ q[k].name = SyncNames[k]
                         /\ q[k].classified => q[k].shortname # None }
  /\ ixShortnames = {}
  /\ ixPc = "analyze"
  /\ ixFiles = NoFiles

\* onSuccess of analyze: if (object.verified) shortnames.add(object.shortname)
VerifiedShortnames(objects) ==
  { objects[k].shortname : k \in {j \in DOMAIN objects : objects[j].classified /\ objects[j].verified} }

\* a faulty variant of Conflicts: a verified package gives way as well
ConflictsVerifiedToo(object, shortnames) == object.shortname \in shortnames

\* !(object.verified || !shortnames.has(object.shortname))
Conflicts(object, shortnames) == ~object.verified /\ object.shortname \in shortnames

\* analyze: this.scanner.analyze(...) with its callbacks, then the loop that
\* resolves name conflicts
Analyze ==
  /\ ixPc = "analyze"
  /\ ixShortnames' = VerifiedShortnames(ixObjects)
  /\ ixObjects' = [k \in DOMAIN ixObjects |->
                     IF Conflicts(ixObjects[k], VerifiedShortnames(ixObjects))
                     THEN [ixObjects[k] EXCEPT !.ignored = TRUE]
                     ELSE ixObjects[k]]
  /\ ixPc' = "bundleAll"
  /\ UNCHANGED ixFiles
  /\ IndexOnly

\* what bundleAll leaves on an item it does not skip:
\*   shouldBundle false: Object.assign(item, pick(legacy.object, [...])), any values
\*   otherwise: item.portable = result.portable; item.insecure ??= result.insecure
\*   with result { portable: false, insecure: true } or { portable: !message, insecure: false }
Bundled(item) ==
  { [item EXCEPT !.portable = po, !.insecure = ins] :
      po \in {"true", "false"}, ins \in {"true", "false"} }
  \cup
  { [item EXCEPT !.portable = r.portable,
                 !.insecure = IF item.insecure = None THEN r.insecure ELSE item.insecure] :
      r \in { [portable |-> "false", insecure |-> "true"],
              [portable |-> "true", insecure |-> "false"],
              [portable |-> "false", insecure |-> "false"] } }

\* bundleAll: pMap(this.scanner.objects, ...), if (item.ignored) return
BundleAll ==
  /\ ixPc = "bundleAll"
  /\ \E q \in [DOMAIN ixObjects -> UNION {Bundled(ixObjects[k]) \cup {ixObjects[k]} : k \in DOMAIN ixObjects}] :
       /\ \A k \in DOMAIN ixObjects :
            IF ixObjects[k].ignored THEN q[k] = ixObjects[k] ELSE q[k] \in Bundled(ixObjects[k])
       /\ ixObjects' = q
  /\ ixPc' = "generate"
  /\ UNCHANGED <<ixShortnames, ixFiles>>
  /\ IndexOnly

\* item => !item.ignored
NotIgnored(item) == ~item.ignored

\* a faulty variant of IsPortable: insecure packages pass
IsPortableInsecure(item) == item.portable = "true" /\ ~item.hidden

\* item => item.portable && !item.insecure && !item.manifest.hidden
IsPortable(item) == item.portable = "true" /\ item.insecure # "true" /\ ~item.hidden

\* object.versions exists only on an object onSuccess of analyze was called for
HasVersions(item) == item.classified

\* generate: the three writeFile calls, scanner.objects filtered in between;
\* pick(object.versions[0], ...) throws before portable.json is written when a
\* portable object has no versions
Generate ==
  /\ ixPc = "generate"
  /\ LET curated == SelectSeq(ixObjects, NotIgnored)
         portable == SelectSeq(curated, IsPortable)
     IN /\ ixObjects' = portable
        /\ IF \A k \in DOMAIN portable : HasVersions(portable[k])
           THEN /\ ixFiles' = [cache |-> ixObjects, index |-> curated, portable |-> portable]
                /\ ixPc' = "done"
           ELSE /\ ixFiles' = [cache |-> ixObjects, index |-> curated, portable |-> None]
                /\ ixPc' = "threw"
  /\ UNCHANGED ixShortnames
  /\ IndexOnly

NextIndex == Analyze \/ BundleAll \/ Generate

SpecIndex == InitIndex /\ [][NextIndex]_vars

\* C16: index.json holds no two entries of one ecosystem with the same
\* shortname; of the classified packages sharing a shortname in an ecosystem
\* it holds at most one.
C16_ShortnamesUniqueInIndex ==
  ixPc = "done" =>
    \A i, j \in DOMAIN ixFiles.index :
      (i # j /\ ixFiles.index[i].classified /\ ixFiles.index[j].classified
             /\ ixFiles.index[i].ecosystem = ixFiles.index[j].ecosystem)
        => ixFiles.index[i].shortname # ixFiles.index[j].shortname

\* C17: once analyze has resolved the conflicts, of two classified packages of
\* one ecosystem with the same shortname, one verified and one not, the
\* unverified one is ignored and the verified one is as it was before.
C17_UnverifiedGivesWay ==
  ixPc = "bundleAll" =>
    \A i, j \in DOMAIN ixObjects :
      ( /\ ixObjects[i].classified /\ ixObjects[j].classified
        /\ ixObjects[i].shortname = ixObjects[j].shortname
        /\ ixObjects[i].ecosystem = ixObjects[j].ecosystem
        /\ ixObjects[i].verified /\ ~ixObjects[j].verified )
      => /\ ixObjects[j].ignored
         /\ ixObjects[i].ignored = ixObjects[i].ignored0

\* C17 witness: such a pair, neither ignored before analyze, after analyze.
C17_Witness ==
  /\ ixPc = "bundleAll"
  /\ \E i, j \in DOMAIN ixObjects :
       /\ ixObjects[i].classified /\ ixObjects[j].classified
       /\ ixObjects[i].shortname = ixObjects[j].shortname
       /\ ixObjects[i].ecosystem = ixObjects[j].ecosystem
       /\ ixObjects[i].verified /\ ~ixObjects[j].verified
       /\ ~ixObjects[i].ignored0 /\ ~ixObjects[j].ignored0
       /\ ~ixObjects[i].ignored /\ ixObjects[j].ignored

Written(file) == {file[k].name : k \in DOMAIN file}
Entry(file, n) == CHOOSE o \in {file[k] : k \in DOMAIN file} : o.name = n

C28_ConflictsWithinOneEcosystem ==
  ixPc = "bundleAll" =>
    \A j \in DOMAIN ixObjects :
      (ixObjects[j].ignored /\ ~ixObjects[j].ignored0) =>
        \E i \in DOMAIN ixObjects :
          /\ ixObjects[i].classified /\ ixObjects[i].verified
          /\ ixObjects[i].shortname = ixObjects[j].shortname
          /\ ixObjects[i].ecosystem = ixObjects[j].ecosystem

(***************************************************************************)
(* SpecCheck: Synchronizer.checkAll.                                       *)
(*   ckIn   [legacy, latest, now, collect]: the snapshot getLegacy read    *)
(*          ([version, forceTime, dates], version 0 and forceTime <<>> for *)
(*          undefined), the dates of the fresh listing, Date.now() in      *)
(*          milliseconds, and whether scanner.collect() resolves           *)
(*   ckOut  [pc, shouldUpdate, forceUpdate, forceTime, examined]: pc is    *)
(*          "idle", "returned" or "rejected"; shouldUpdate is the value    *)
(*          returned; forceUpdate is this.forceUpdate; forceTime is        *)
(*          this.scanner.forceTime; examined holds the names checkUpdate   *)
(*          was called with                                                *)
(***************************************************************************)
CheckOnly == UNCHANGED <<crawlVars, searchVars, selectVars, gateVars, loadVars, localVars, termVars, indexVars, bundleVars, startVars>>

Listings == [CheckNames -> 0..2]
Snapshots ==
  [version : {0, SyncVersion - 1, SyncVersion}, forceTime : {<<>>, <<0>>, <<1000>>},
   dates : Listings]
Clock ==
  {REFRESH_INTERVAL - 1, REFRESH_INTERVAL, REFRESH_INTERVAL + 1,
   REFRESH_INTERVAL + 1000, REFRESH_INTERVAL + 1001}

InitCheck ==
  /\ IdleCrawl /\ IdleSearch /\ IdleSelect /\ IdleGate /\ IdleLoad /\ IdleLocal /\ IdleTerm /\ IdleIndex /\ IdleBundle /\ IdleStart
  /\ ckIn \in [legacy : Snapshots, latest : Listings, now : Clock,
               collect : {"resolves", "rejects"}]
  /\ ckOut = [pc |-> "idle", shouldUpdate |-> FALSE, forceUpdate |-> None,
              forceTime |-> <<>>, examined |-> {}]

\* a faulty variant of checkUpdate: dates are not compared
checkUpdatePresence(in, name) == (in.legacy.dates[name] = 0) # (in.latest[name] = 0)

\* checkUpdate(name): !(date1 === date2)
checkUpdate(in, name) == in.legacy.dates[name] # in.latest[name]

\* for (const name in { ...this.latest, ...this.legacy })
Listed(in) == {n \in CheckNames : in.latest[n] # 0 \/ in.legacy.dates[n] # 0}

\* version !== legacy.version
VersionMismatch(in) == SyncVersion # in.legacy.version

\* a faulty variant of Expired: the snapshot never expires
ExpiredNever(in) == FALSE

\* now - (legacy.forceTime ?? 0) > REFRESH_INTERVAL
Expired(in) ==
  in.now - (IF in.legacy.forceTime = <<>> THEN 0 ELSE in.legacy.forceTime[1]) > REFRESH_INTERVAL

\* checkAll
CheckAll ==
  /\ ckOut.pc = "idle"
  /\ ckOut' =
       IF ckIn.collect = "rejects" THEN [ckOut EXCEPT !.pc = "rejected"]
       ELSE IF VersionMismatch(ckIn) \/ Expired(ckIn)
       THEN [pc |-> "returned", shouldUpdate |-> TRUE, forceUpdate |-> "true",
             forceTime |-> <<ckIn.now>>, examined |-> {}]
       ELSE [pc |-> "returned",
             shouldUpdate |-> \E n \in Listed(ckIn) : checkUpdate(ckIn, n),
             forceUpdate |-> None,
             forceTime |-> ckIn.legacy.forceTime,
             examined |-> Listed(ckIn)]
  /\ UNCHANGED ckIn
  /\ CheckOnly

NextCheck == CheckAll

SpecCheck == InitCheck /\ [][NextCheck]_vars

\* C19: checkAll, when it returns, has forced a refresh (returned true with
\* forceUpdate set and forceTime set to now) whenever the snapshot's version
\* is not the current one or more than half a day has passed since the
\* snapshot's forceTime, whatever the dates of the two listings.
C19_ForcedRefresh ==
  ( /\ ckOut.pc = "returned"
    /\ \/ ckIn.legacy.version # 6
       \/ ckIn.legacy.forceTime = <<>> /\ ckIn.now > 43200000
       \/ ckIn.legacy.forceTime # <<>> /\ ckIn.now - ckIn.legacy.forceTime[1] > 43200000 )
  => /\ ckOut.shouldUpdate
     /\ ckOut.forceUpdate = "true"
     /\ ckOut.forceTime = <<ckIn.now>>

\* C19 witness: a refresh forced by expiry alone, the version matching and the
\* two listings equal.
C19_Witness ==
  /\ ckOut.pc = "returned" /\ ckOut.forceUpdate = "true"
  /\ ckIn.legacy.version = 6
  /\ ckIn.legacy.forceTime = <<1000>> /\ ckIn.now = 43201001
  /\ ckIn.legacy.dates = ckIn.latest /\ ckIn.latest["p"] # 0

\* the (name, date) pairs of a listing
Pairs(dates) == {<<n, dates[n]>> : n \in {m \in CheckNames : dates[m] # 0}}

\* C20: checkAll, when it returns without a forced refresh, returns true
\* exactly when the (name, date) pairs of the snapshot and of the fresh
\* listing differ; it has examined every name of either listing and carried
\* the snapshot's forceTime over.
C20_UpdateIffListingsDiffer ==
  (ckOut.pc = "returned" /\ ckOut.forceUpdate # "true") =>
    /\ ckOut.shouldUpdate <=>
         (Pairs(ckIn.legacy.dates) \ Pairs(ckIn.latest)) \cup
         (Pairs(ckIn.latest) \ Pairs(ckIn.legacy.dates)) # {}
    /\ ckOut.examined = {n \in CheckNames : ckIn.legacy.dates[n] # 0 \/ ckIn.latest[n] # 0}
    /\ ckOut.forceTime = ckIn.legacy.forceTime

\* C20 witness: no refresh forced, one name unchanged and the other with a
\* new date; checkAll returned true.
C20_Witness ==
  /\ ckOut.pc = "returned" /\ ckOut.forceUpdate # "true" /\ ckOut.shouldUpdate
  /\ ckIn.legacy.dates = [n \in CheckNames |-> 1]
  /\ ckIn.latest = [n \in CheckNames |-> IF n = "p" THEN 1 ELSE 2]
  /\ ckOut.examined = CheckNames

(***************************************************************************)
(* SpecBundle: the scoring pass of Synchronizer.bundleAll (sync.ts         *)
(* 330-377) over two objects of the scanner.                               *)
(*   bnIn     <<in1, in2>>, what the run finds for each object:            *)
(*            [force, ignored, verified, insecure0, links, preview,        *)
(*             legacy, bundle, fetched, popularity, quality]               *)
(*            force      this.forceUpdate                                  *)
(*            insecure0  object.insecure as the scanner left it            *)
(*            links      "absent" (package.links undefined), "norepo" or   *)
(*                       "repo" (links.repository set)                     *)
(*            preview    manifest.preview                                  *)
(*            legacy     the package in the previous snapshot: "absent",   *)
(*                       "older" (another date), "same" (same date, a      *)
(*                       record that was scored) or "sameBare" (same date, *)
(*                       a record that was never scored)                   *)
(*            bundle     how this.bundle ends: "prepare" (prepare or the   *)
(*                       first diskUsage failed), "security", "message"    *)
(*                       (not portable) or "success"                       *)
(*            fetched    whether getDownloads succeeds                     *)
(*            popularity, quality   the values the evaluators compute from *)
(*                       the downloads and from a measured installSize     *)
(*   bnItems  the records: [name, ignored, verified, insecure, portable,   *)
(*            rating, downloads, sizes, final, detail]; sizes stands for   *)
(*            installSize and publishSize, final and detail for            *)
(*            score.final and score.detail                                 *)
(*   bnTasks  per mapper [pc, popularity, bundle, quality, maintenance,    *)
(*            value, order]: the state of its promises, the values they    *)
(*            resolved with, the subjects in the order they were added     *)
(*   bnLog    <<mapper, record>> for every write of a mapper to a record   *)
(*   bnPc     position of bundleAll                                        *)
(* Numbers are [nan, v]: sub-scores in hundredths, weights in tenths,      *)
(* final and rating in thousandths; every operation rounds its result to   *)
(* Precision significant digits, ties to even.                             *)
(***************************************************************************)
BundleOnly == UNCHANGED <<crawlVars, searchVars, selectVars, gateVars, loadVars, localVars, termVars, indexVars, checkVars, startVars>>

Num(v) == [nan |-> FALSE, v |-> v]
NaN == [nan |-> TRUE, v |-> 0]

RECURSIVE Scale(_)
Scale(x) == IF x < 10 ^ Precision THEN 1 ELSE 10 * Scale(x \div 10)

RoundTo(x, s) ==
  LET q == x \div s
      r == x % s
  IN  IF 2 * r < s THEN q * s
      ELSE IF 2 * r > s THEN (q + 1) * s
      ELSE IF q % 2 = 0 THEN q * s ELSE (q + 1) * s

\* the rounding of one arithmetic operation
Fl(x) == IF x < 0 THEN 0 - RoundTo(0 - x, Scale(0 - x)) ELSE RoundTo(x, Scale(x))

\* a + b
Plus(a, b) == IF a.nan \/ b.nan THEN NaN ELSE Num(Fl(a.v + b.v))
\* weights[subject] * value
Times(w, a) == IF a.nan THEN NaN ELSE Num(Fl(w * a.v))
\* (item.score.final - 0.3) * 10
Rating(final) == IF final.nan THEN NaN ELSE Num(Fl(Fl(final.v - 300) * 10))

\* Object.keys(weights)
Subjects == <<"maintenance", "popularity", "quality">>
SubjectSet == {"maintenance", "popularity", "quality"}
\* const weights, in tenths
weights(subject) ==
  CASE subject = "maintenance" -> 3
    [] subject = "popularity" -> 5
    [] subject = "quality" -> 2

BundleOutcomes == {"prepare", "security", "message", "success"}

ItemInputs ==
  {in \in [force : BOOLEAN, ignored : BOOLEAN, verified : BOOLEAN, insecure0 : {None, "true"},
           links : {"absent", "norepo", "repo"}, preview : BOOLEAN,
           legacy : {"absent", "older", "same", "sameBare"},
           bundle : BundleOutcomes, fetched : BOOLEAN, popularity : {9, 46},
           quality : {12}] :
     \* one value for what the run never reads
     /\ in.ignored =>
          /\ ~in.verified /\ in.insecure0 = None /\ in.links = "repo" /\ ~in.preview
          /\ in.legacy = "older" /\ in.bundle = "success"
     /\ (in.ignored \/ (~in.force /\ in.legacy \in {"same", "sameBare"})) =>
          /\ in.bundle = "success" /\ in.fetched /\ in.links = "repo" /\ ~in.preview
     /\ in.popularity = (IF in.fetched THEN 9 ELSE 46)}

\* the second object: a package that changed and bundles
SiblingInputs ==
  {in \in ItemInputs :
     /\ ~in.ignored /\ ~in.verified /\ in.insecure0 = None /\ in.links = "repo"
     /\ in.preview /\ in.legacy = "older" /\ in.fetched /\ in.bundle = "success"}

NoDetail == [s \in SubjectSet |-> <<>>]

\* an object as the scanner hands it over: the score is the registry's
NewItem(name, in) ==
  [name |-> name, ignored |-> in.ignored, verified |-> in.verified, insecure |-> in.insecure0,
   portable |-> None, rating |-> <<>>, downloads |-> None, sizes |-> None,
   final |-> <<Num(500)>>, detail |-> [s \in SubjectSet |-> <<Num(50)>>]]

\* this.legacy[name].object of a package the previous snapshot lists with
\* the same date
LegacyObject(in) ==
  IF in.legacy = "same"
  THEN [rating |-> <<Num(1200)>>, portable |-> "true", insecure |-> "false",
        downloads |-> "legacy", sizes |-> "legacy", final |-> <<Num(420)>>]
  ELSE [rating |-> <<>>, portable |-> None, insecure |-> in.insecure0,
        downloads |-> None, sizes |-> None, final |-> <<Num(500)>>]

NewTasks ==
  [pc |-> "waiting", popularity |-> "none", bundle |-> "none", quality |-> "none",
   maintenance |-> "none", value |-> NoDetail, order |-> <<>>]

InitBundle ==
  /\ IdleCrawl /\ IdleSearch /\ IdleSelect /\ IdleGate /\ IdleLoad /\ IdleLocal /\ IdleTerm /\ IdleIndex /\ IdleCheckAll /\ IdleStart
  /\ \E in1 \in ItemInputs : \E in2 \in SiblingInputs :
       /\ in1.force = in2.force
       /\ ~in1.preview
       /\ bnIn = <<in1, in2>>
       /\ bnItems = <<NewItem("p", in1), NewItem("q", in2)>>
  /\ bnTasks = <<NewTasks, NewTasks>>
  /\ bnLog = {}
  /\ bnPc = "idle"

\* a faulty variant of shouldBundle: every package is bundled again
shouldBundleAlways(in) == TRUE

\* shouldBundle(name), undefined read as false
shouldBundle(in) == in.force \/ in.legacy \in {"absent", "older"}

\* a faulty variant of ItemOf: every mapper works on the first record
ItemOfFirst(k) == 1

\* the record the mapper of this.scanner.objects[k] is given
ItemOf(k) == k

\* Object.assign(item, pick(legacy.object, [...])): pick leaves out undefined
Carry(item, old) ==
  [item EXCEPT !.rating = IF old.rating = <<>> THEN @ ELSE old.rating,
               !.portable = IF old.portable = None THEN @ ELSE old.portable,
               !.insecure = IF old.insecure = None THEN @ ELSE old.insecure,
               !.downloads = IF old.downloads = None THEN @ ELSE old.downloads,
               !.sizes = IF old.sizes = None THEN @ ELSE old.sizes,
               !.final = old.final,
               !.detail = NoDetail]

\* delete item.score.detail (the other deletes touch fields not modelled)
Trim(item) == [item EXCEPT !.detail = NoDetail]

\* bundleAll up to pMap
BundleAllStart ==
  /\ bnPc = "idle"
  /\ bnPc' = "mapping"
  /\ UNCHANGED <<bnIn, bnItems, bnTasks, bnLog>>
  /\ BundleOnly

\* the mapper of pMap up to its first await
MapperStart(k) ==
  /\ bnPc = "mapping"
  /\ bnTasks[k].pc = "waiting"
  /\ \A j \in 1..(k - 1) : bnTasks[j].pc # "waiting"
  /\ LET in == bnIn[k]
         r == ItemOf(k)
         item == bnItems[r]
     IN  IF item.ignored
         THEN /\ bnTasks' = [bnTasks EXCEPT ![k].pc = "done"]
              /\ UNCHANGED <<bnItems, bnLog>>
         ELSE IF ~shouldBundle(in)
         THEN /\ bnItems' = [bnItems EXCEPT ![r] = Trim(Carry(item, LegacyObject(in)))]
              /\ bnTasks' = [bnTasks EXCEPT ![k].pc = "done"]
              /\ bnLog' = bnLog \cup {<<k, r>>}
         ELSE /\ bnItems' = [bnItems EXCEPT ![r].final = <<Num(0)>>]
              /\ bnTasks' = [bnTasks EXCEPT ![k] =
                   [@ EXCEPT !.pc = "running", !.popularity = "pending", !.bundle = "pending",
                             !.quality = "blocked", !.maintenance = "blocked"]]
              /\ bnLog' = bnLog \cup {<<k, r>>}
  /\ UNCHANGED <<bnIn, bnPc>>
  /\ BundleOnly

\* evaluators.popularity once getDownloads has settled
PopularityResolve(k) ==
  /\ bnTasks[k].popularity = "pending"
  /\ LET in == bnIn[k]
         r == ItemOf(k)
     IN  /\ bnItems' = IF in.fetched THEN [bnItems EXCEPT ![r].downloads = "fetched"] ELSE bnItems
         /\ bnLog' = IF in.fetched THEN bnLog \cup {<<k, r>>} ELSE bnLog
         /\ bnTasks' = [bnTasks EXCEPT ![k].popularity = "resolved",
                                       ![k].value["popularity"] = <<Num(in.popularity)>>]
  /\ UNCHANGED <<bnIn, bnPc>>
  /\ BundleOnly

\* what this.bundle(...).catch(...) resolves with
BundleResult(outcome) ==
  [portable |-> IF outcome = "success" THEN "true" ELSE "false",
   insecure |-> IF outcome \in {"prepare", "security"} THEN "true" ELSE "false"]

\* evaluators.quality: Math.max(undefined, ...) is NaN and nothing throws
quality(item, in) == IF item.sizes = None THEN NaN ELSE Num(in.quality)

\* evaluators.maintenance throws on object.package.links.repository when
\* links is undefined
maintenanceThrows(item, in) ==
  ~item.verified /\ item.insecure # "true" /\ in.links = "absent"

maintenance(item, in) ==
  IF item.verified THEN Num(100)
  ELSE IF item.insecure = "true" THEN Num(0)
  ELSE Num(Fl(Fl(Fl(40 - (IF in.preview THEN 40 ELSE 0))
                 + (IF item.portable = "true" THEN 20 ELSE 0))
              + (IF in.links = "repo" THEN 20 ELSE 0)))

\* bundleTask settles; quality and maintenance run on the item it left
BundleResolve(k) ==
  /\ bnTasks[k].bundle = "pending"
  /\ LET in == bnIn[k]
         r == ItemOf(k)
         res == BundleResult(in.bundle)
         item == [bnItems[r] EXCEPT
                    !.sizes = IF in.bundle = "prepare" THEN @ ELSE "measured",
                    !.portable = res.portable,
                    !.insecure = IF @ = None THEN res.insecure ELSE @]
     IN  /\ bnItems' = [bnItems EXCEPT ![r] = item]
         /\ bnLog' = bnLog \cup {<<k, r>>}
         /\ bnTasks' = [bnTasks EXCEPT ![k] =
              [@ EXCEPT !.bundle = "resolved",
                        !.quality = "resolved",
                        !.maintenance = IF maintenanceThrows(item, in) THEN "rejected" ELSE "resolved",
                        !.value = [@ EXCEPT !["quality"] = <<quality(item, in)>>,
                                            !["maintenance"] =
                                               IF maintenanceThrows(item, in) THEN <<>>
                                               ELSE <<maintenance(item, in)>>]]]
  /\ UNCHANGED <<bnIn, bnPc>>
  /\ BundleOnly

\* a faulty variant of Added: the sum read before the await is written back
AddedToStale(final, subject, value) == Plus(Num(0), Times(weights(subject), value))

\* item.score.final += weights[subject] * value
Added(final, subject, value) == Plus(final, Times(weights(subject), value))

\* one callback of Object.keys(weights).map after its await: quality was
\* chained on bundleTask before maintenance and is resumed first
Score(k, subject) ==
  /\ bnTasks[k].pc = "running"
  /\ bnTasks[k][subject] \in {"resolved", "rejected"}
  /\ subject = "maintenance" => bnTasks[k].quality = "added"
  /\ LET r == ItemOf(k)
         value == IF bnTasks[k][subject] = "rejected" THEN Num(0) ELSE bnTasks[k].value[subject][1]
         order == Append(bnTasks[k].order, subject)
     IN  /\ bnItems' = [bnItems EXCEPT
              ![r].detail[subject] = <<value>>,
              ![r].final = <<Added(@[1], subject, value)>>]
         /\ bnLog' = bnLog \cup {<<k, r>>}
         /\ bnTasks' = [bnTasks EXCEPT ![k] =
              [@ EXCEPT ![subject] = "added", !.order = order,
                        !.pc = IF Len(order) = Len(Subjects) THEN "scored" ELSE "running"]]
  /\ UNCHANGED <<bnIn, bnPc>>
  /\ BundleOnly

\* the mapper after Promise.all: the rating and the deletes
Finish(k) ==
  /\ bnTasks[k].pc = "scored"
  /\ LET r == ItemOf(k)
     IN  /\ bnItems' = [bnItems EXCEPT ![r] = Trim([@ EXCEPT !.rating = <<Rating(bnItems[r].final[1])>>])]
         /\ bnLog' = bnLog \cup {<<k, r>>}
  /\ bnTasks' = [bnTasks EXCEPT ![k].pc = "done"]
  /\ UNCHANGED <<bnIn, bnPc>>
  /\ BundleOnly

\* pMap resolves
BundleAllReturn ==
  /\ bnPc = "mapping"
  /\ \A k \in DOMAIN bnTasks : bnTasks[k].pc = "done"
  /\ bnPc' = "returned"
  /\ UNCHANGED <<bnIn, bnItems, bnTasks, bnLog>>
  /\ BundleOnly

NextBundle ==
  \/ BundleAllStart
  \/ \E k \in 1..2 : MapperStart(k)
  \/ \E k \in 1..2 : PopularityResolve(k)
  \/ \E k \in 1..2 : BundleResolve(k)
  \/ \E k \in 1..2 : \E subject \in SubjectSet : Score(k, subject)
  \/ \E k \in 1..2 : Finish(k)
  \/ BundleAllReturn

SpecBundle == InitBundle /\ [][NextBundle]_vars

\* the mappers that went through the scoring branch
Rescored(k) == ~bnIn[k].ignored /\ shouldBundle(bnIn[k])

\* the evaluator of a subject could not compute its value: the download
\* lookup failed, the size was not measured, or maintenance threw
Failed(k, subject) ==
  CASE subject = "popularity" -> ~bnIn[k].fetched
    [] subject = "quality" -> bnItems[k].sizes = None
    [] subject = "maintenance" -> maintenanceThrows(bnItems[k], bnIn[k])

\* C21: once the three callbacks of a package have run, every sub-score is
\* recorded as a number, the sub-score of an evaluator that did not fail is
\* the value it computed, and score.final is a number; once its mapper is
\* done the package has a rating that is a number. This holds for both
\* packages, whatever happened to the other one.
C21_EvaluatorFailureIsIsolated ==
  \A k \in 1..2 :
    /\ bnTasks[k].pc = "scored" =>
         /\ \A subject \in SubjectSet :
              /\ bnItems[k].detail[subject] # <<>>
              /\ ~bnItems[k].detail[subject][1].nan
              /\ ~Failed(k, subject) => bnItems[k].detail[subject] = bnTasks[k].value[subject]
         /\ ~bnItems[k].final[1].nan
    /\ (bnTasks[k].pc = "done" /\ Rescored(k)) =>
         bnItems[k].rating # <<>> /\ ~bnItems[k].rating[1].nan

LocalOnly == UNCHANGED <<crawlVars, searchVars, selectVars, gateVars, loadVars, termVars, syncVars>>

LocalNames == <<"a", "b">>
Subpaths == {".", "./foo"}

\* the segments path.join keeps of a subpath
Segments(path) == IF path = "." THEN <<>> ELSE <<"foo">>

\* join(name, path) of node:path
join(name, path) == name \o Segments(path)

NoExports == [p \in Subpaths |-> "absent"]

Candidates(name) ==
  [memberOf : SUBSET Ecos, short : {"s" \o name}, declares : {None} \cup SubEcos,
   exports : IF name = "a" THEN [Subpaths -> {"absent", "null", "manifest"}] ELSE {NoExports},
   version : IF name = "a" THEN {1, 2} ELSE {1}]

InitLocal ==
  /\ IdleCrawl /\ IdleSearch /\ IdleSelect /\ IdleGate /\ IdleLoad /\ IdleTerm /\ IdleSync
  /\ lcCandidates \in [{"a", "b"} -> UNION {Candidates(n) : n \in {"a", "b"}}]
  /\ \A n \in {"a", "b"} : lcCandidates[n] \in Candidates(n)
  /\ lcEcosystems = <<>>
  /\ lcVisited = <<>>
  /\ lcTasks = {}
  /\ lcCache = {}
  /\ lcPc = "idle"
  /\ lcCalls = NoCalls
  /\ lcCollects = 0

\* the first collect(): this.mainTask ||= this._collect(), and _collect up to
\* the loop: scan() has resolved
LocalCollectStart ==
  /\ lcPc = "idle"
  /\ lcEcosystems' = <<"INIT">>
  /\ lcPc' = "looping"
  /\ lcCollects' = 1
  /\ UNCHANGED <<lcCandidates, lcVisited, lcTasks, lcCache, lcCalls>>
  /\ LocalOnly

\* a further collect(): this.mainTask is set, the call returns that promise
\* and starts nothing
LocalCollectAgain ==
  /\ lcPc # "idle"
  /\ lcCollects < MaxCollects
  /\ lcCollects' = lcCollects + 1
  /\ UNCHANGED <<lcCandidates, lcEcosystems, lcVisited, lcTasks, lcCache, lcPc, lcCalls>>
  /\ LocalOnly

\* a faulty variant of EmitsParent: the parent is left out whenever '.' is
\* declared
EmitsParentUndeclared(meta) == meta.exports["."] = "absent"

\* exports['.'] !== null
EmitsParent(meta) == meta.exports["."] # "null"

\* the object of line 355-360 for the package itself
ParentObject(name, meta, shortname) ==
  [key |-> <<name>>, shortname |-> <<shortname>>, name |-> <<name>>, version |-> meta.version,
   manifest |-> "package"]

\* the object of line 365-373 for one subpath
SubObject(name, meta, shortname, path) ==
  [key |-> join(<<name>>, path), shortname |-> join(<<shortname>>, path),
   name |-> join(<<name>>, path), version |-> meta.version, manifest |-> path]

\* the objects one pass of the loop of loadEcosystem offers to pkgTasks for a
\* candidate, the package itself first
Offered(eco, name) ==
  LET meta == lcCandidates[name]
      shortname == Ecosystem_check(eco, meta)
  IN  IF shortname = None THEN {}
      ELSE (IF EmitsParent(meta) THEN {ParentObject(name, meta, shortname)} ELSE {})
           \cup {SubObject(name, meta, shortname, path) :
                   path \in {p \in Subpaths : meta.exports[p] = "manifest"}}

\* a faulty variant of Started: this.pkgTasks[key] = this.loadPackage(...)
StartedAll(eco, name) == Offered(eco, name)

\* this.pkgTasks[key] ||= this.loadPackage(...): of the objects offered under
\* one key only the first starts a task, and none does if the key has one
Started(eco, name) ==
  {o \in Offered(eco, name) :
     /\ o.key \notin {t.key : t \in lcTasks}
     /\ (o.manifest # "package" /\ o.key = <<name>>) => ~EmitsParent(lcCandidates[name])}

\* this.ecosystems.push(Ecosystem.resolve(name, manifest)) for the candidates
\* of the ecosystem, in the order of this.candidates
PushedBy(eco, name) ==
  IF Ecosystem_check(eco, lcCandidates[name]) # None
     /\ Ecosystem_resolve(lcCandidates[name]) # None
  THEN <<Ecosystem_resolve(lcCandidates[name])>>
  ELSE <<>>

Pushed(eco) == PushedBy(eco, LocalNames[1]) \o PushedBy(eco, LocalNames[2])

\* one turn of the loop of _collect: shift and loadEcosystem; loadPackage
\* runs up to its first await, which stores the object in this.cache
LocalLoadEcosystem ==
  /\ lcPc = "looping"
  /\ lcEcosystems # <<>>
  /\ Len(lcVisited) < MaxLocalRounds
  /\ LET eco == Head(lcEcosystems)
         new == Started(eco, "a") \cup Started(eco, "b")
     IN  /\ lcVisited' = Append(lcVisited, eco)
         /\ lcTasks' = lcTasks \cup {[key |-> o.key, state |-> "pending"] : o \in new}
         /\ lcCache' = lcCache \cup new
         /\ lcCalls' = [k \in LocalKeys |->
                          [lcCalls[k] EXCEPT !.loads = @ + Cardinality({o \in new : o.key = k})]]
         /\ lcEcosystems' = Tail(lcEcosystems) \o Pushed(eco)
  /\ UNCHANGED <<lcCandidates, lcPc, lcCollects>>
  /\ LocalOnly

\* the loop ends on an empty queue
LocalLoopEnd ==
  /\ lcPc = "looping"
  /\ lcEcosystems = <<>>
  /\ lcPc' = "awaiting"
  /\ UNCHANGED <<lcCandidates, lcEcosystems, lcVisited, lcTasks, lcCache, lcCalls, lcCollects>>
  /\ LocalOnly

\* loadPackage after glob: await this.onSuccess?.(object) and the object, or
\* onFailure
LocalPackageSettle(key, ok) ==
  /\ lcPc = "awaiting"
  /\ [key |-> key, state |-> "pending"] \in lcTasks
  /\ lcTasks' = (lcTasks \ {[key |-> key, state |-> "pending"]})
                 \cup {[key |-> key, state |-> IF ok THEN "object" ELSE "undefined"]}
  /\ lcCalls' = [lcCalls EXCEPT ![key].success = IF ok THEN @ + 1 ELSE @]
  /\ UNCHANGED <<lcCandidates, lcEcosystems, lcVisited, lcCache, lcPc, lcCollects>>
  /\ LocalOnly

\* Promise.allSettled(Object.values(this.pkgTasks)) resolves
LocalCollectReturn ==
  /\ lcPc = "awaiting"
  /\ \A t \in lcTasks : t.state # "pending"
  /\ lcPc' = "returned"
  /\ UNCHANGED <<lcCandidates, lcEcosystems, lcVisited, lcTasks, lcCache, lcCalls, lcCollects>>
  /\ LocalOnly

NextLocal ==
  \/ LocalCollectStart
  \/ LocalCollectAgain
  \/ LocalLoadEcosystem
  \/ LocalLoopEnd
  \/ \E t \in lcTasks : \E ok \in BOOLEAN : LocalPackageSettle(t.key, ok)
  \/ LocalCollectReturn

SpecLocal == InitLocal /\ [][NextLocal]_vars

\* the candidates some loadEcosystem call accepted
Matched(n) == \E i \in DOMAIN lcVisited : lcVisited[i] \in lcCandidates[n].memberOf

\* C23: once the loop of _collect is over, a candidate an ecosystem accepted
\* has, for each subpath other than '.' that its exports map to a manifest,
\* exactly one entry, whose shortname is the parent's shortname followed by
\* the subpath and whose package is the parent's name followed by the
\* subpath with the parent's version; it has no entry for any other subpath;
\* and it has the entry of the package itself exactly when exports['.'] is
\* not null.
C23_OneEntryPerSubpath ==
  lcPc \in {"awaiting", "returned"} =>
    \A n \in {"a", "b"} : Matched(n) =>
      LET meta == lcCandidates[n]
          mine == {o \in lcCache : o.key[1] = n}
          subs == {o \in mine : Len(o.key) = 2}
          self == {o \in mine : Len(o.key) = 1}
      IN  /\ subs = IF meta.exports["./foo"] = "manifest"
                    THEN {[key |-> <<n, "foo">>, shortname |-> <<meta.short, "foo">>,
                           name |-> <<n, "foo">>, version |-> meta.version,
                           manifest |-> "./foo"]}
                    ELSE {}
          /\ self = IF meta.exports["."] # "null"
                    THEN {[key |-> <<n>>, shortname |-> <<meta.short>>, name |-> <<n>>,
                           version |-> meta.version, manifest |-> "package"]}
                    ELSE {}

\* C23 witnesses: a package with '.' null and one subpath ends with the
\* subpath's entry alone; a package with '.' and a subpath both declared ends
\* with two entries.
C23_Witness ==
  /\ lcPc = "returned"
  /\ lcCandidates["a"].exports = [p \in Subpaths |-> IF p = "." THEN "null" ELSE "manifest"]
  /\ {o.key : o \in lcCache} = {<<"a", "foo">>}

C25_UnchangedIsCarriedOver ==
  \A k \in 1..2 :
    (~bnIn[k].ignored /\ ~bnIn[k].force /\ bnIn[k].legacy \in {"same", "sameBare"}) =>
      /\ bnTasks[k].bundle = "none"
      /\ bnTasks[k].popularity = "none"
      /\ bnTasks[k].quality = "none"
      /\ bnTasks[k].maintenance = "none"
      /\ bnTasks[k].pc = "done" =>
           LET old == LegacyObject(bnIn[k])
               item == bnItems[k]
           IN  /\ item.rating = old.rating
               /\ item.portable = old.portable
               /\ item.insecure = old.insecure
               /\ item.downloads = old.downloads
               /\ item.sizes = old.sizes
               /\ item.final = old.final

\* C25 witness: an unchanged package ended with the rating of the previous
\* snapshot although the scanner had flagged it insecure, while the other
\* package was scored again.
C25_Witness ==
  /\ bnPc = "returned"
  /\ ~bnIn[1].force /\ bnIn[1].legacy = "same" /\ bnIn[1].insecure0 = "true"
  /\ bnItems[1].rating = <<Num(1200)>> /\ bnItems[1].insecure = "false"
  /\ bnTasks[2].order # <<>>

\* C26 (SpecLoad): a hit that ends with onSuccess has createdAt equal to the
\* earliest and updatedAt equal to the latest publish time among all the
\* versions of the registry document, deprecated ones included, whichever
\* version was selected as latest.
C26_TimesSpanAllVersions ==
  (ldOut.done /\ ldOut.object.calls = <<"onSuccess">>) =>
    /\ \E x \in ldIn.doc.versions : x.time = ldOut.object.createdAt
    /\ \E x \in ldIn.doc.versions : x.time = ldOut.object.updatedAt
    /\ \A x \in ldIn.doc.versions :
         ldOut.object.createdAt <= x.time /\ x.time <= ldOut.object.updatedAt

\* C26 witness: the selected latest version 2.0.0 was published at 2, the
\* deprecated 1.0.0 at 3: updatedAt is 3, createdAt is 2.
C26_Witness ==
  /\ ldOut.done /\ ldOut.object.calls = <<"onSuccess">>
  /\ \E x \in ldIn.doc.versions : x.v = <<1, 0, 0>> /\ x.deprecated /\ x.time = 3
  /\ \E x \in ldIn.doc.versions : x.v = <<2, 0, 0>> /\ ~x.deprecated /\ x.time = 2
  /\ ldOut.object.createdAt = 2 /\ ldOut.object.updatedAt = 3

\* the weighted sum as the expression 0.3 * m + 0.5 * p + 0.2 * q computes it
WeightedSum(detail) ==
  Plus(Plus(Times(3, detail["maintenance"][1]), Times(5, detail["popularity"][1])),
       Times(2, detail["quality"][1]))

RECURSIVE Accumulated(_, _)
Accumulated(detail, order) ==
  IF order = <<>> THEN Num(0)
  ELSE LET n == Len(order)
       IN Plus(Accumulated(detail, SubSeq(order, 1, n - 1)),
               Times(weights(order[n]), detail[order[n]][1]))

TermOnly == UNCHANGED <<crawlVars, searchVars, selectVars, gateVars, loadVars, localVars, syncVars>>

Scanners == {"remote", "local"}

\* the packages among hits that declare an ecosystem
Declaring(reg, eco) == {n \in reg.hits[eco] : reg.declares[n] # None}

\* the registries: any hits per ecosystem, any declaration per package, with
\* at most one declaring package among the hits of one ecosystem
Registries ==
  { reg \in [hits : [TermEcos -> SUBSET Names], declares : [Names -> TermEcos \cup {None}]] :
      \A e \in TermEcos : Cardinality(Declaring(reg, e)) <= 1 }

InitTerm ==
  /\ IdleCrawl /\ IdleSearch /\ IdleSelect /\ IdleGate /\ IdleLoad /\ IdleLocal /\ IdleSync
  /\ tmScanner \in Scanners
  /\ tmRegistry \in Registries
  /\ tmTasks = {}
  /\ tmBatch = {}
  /\ tmEcosystems = <<>>
  /\ tmCurrent = None
  /\ tmPc = "idle"

\* this.loadEcosystem(eco) up to await this.search(eco)
TmTask(eco) == [eco |-> eco, status |-> "searching", pending |-> {}]

\* the promises of one array after promise t has moved on to state u
Moved(S, t, u) == (S \ {t}) \cup {u}

\* RemoteScanner.collect: tasks.push(this.loadEcosystem(Ecosystem.INIT)) and
\* the first splice(0)
TmCollectStart ==
  /\ tmScanner = "remote" /\ tmPc = "idle"
  /\ tmBatch' = {TmTask("INIT")}
  /\ tmTasks' = {}
  /\ tmPc' = "awaiting"
  /\ UNCHANGED <<tmScanner, tmRegistry, tmEcosystems, tmCurrent>>
  /\ TermOnly

\* await this.search(eco) resolves with the hits of eco; objects.map(...)
\* issues the metadata request of every hit.  awaited says whether the
\* promise is in the batch collect awaits or still in this.tasks
TmSearchResolve(awaited, t) ==
  /\ t \in (IF awaited THEN tmBatch ELSE tmTasks)
  /\ t.status = "searching"
  /\ LET u == [t EXCEPT !.status = "loading", !.pending = tmRegistry.hits[t.eco]]
     IN IF awaited
        THEN tmBatch' = Moved(tmBatch, t, u) /\ UNCHANGED tmTasks
        ELSE tmTasks' = Moved(tmTasks, t, u) /\ UNCHANGED tmBatch
  /\ UNCHANGED <<tmScanner, tmRegistry, tmEcosystems, tmCurrent, tmPc>>
  /\ TermOnly

\* if (manifest.ecosystem) this.tasks.push(this.loadEcosystem(Ecosystem.resolve(...)))
Pushes(reg, n) == IF reg.declares[n] = None THEN {} ELSE {TmTask(reg.declares[n])}

\* the metadata request of hit n answers; loadPackage pushes the search of
\* the ecosystem n declares and the map callback of n finishes
TmFetchRespond(awaited, t, n) ==
  /\ t \in (IF awaited THEN tmBatch ELSE tmTasks)
  /\ t.status = "loading" /\ n \in t.pending
  /\ LET u == [t EXCEPT !.pending = @ \ {n}]
     IN IF awaited
        THEN /\ tmBatch' = Moved(tmBatch, t, u)
             /\ tmTasks' = tmTasks \cup Pushes(tmRegistry, n)
        ELSE /\ tmTasks' = Moved(tmTasks, t, u) \cup Pushes(tmRegistry, n)
             /\ UNCHANGED tmBatch
  /\ UNCHANGED <<tmScanner, tmRegistry, tmEcosystems, tmCurrent, tmPc>>
  /\ TermOnly

\* Promise.all(objects.map(...)) of loadEcosystem resolves
TmTaskResolve(awaited, t) ==
  /\ t \in (IF awaited THEN tmBatch ELSE tmTasks)
  /\ t.status = "loading" /\ t.pending = {}
  /\ LET u == [t EXCEPT !.status = "resolved"]
     IN IF awaited
        THEN tmBatch' = Moved(tmBatch, t, u) /\ UNCHANGED tmTasks
        ELSE tmTasks' = Moved(tmTasks, t, u) /\ UNCHANGED tmBatch
  /\ UNCHANGED <<tmScanner, tmRegistry, tmEcosystems, tmCurrent, tmPc>>
  /\ TermOnly

\* collect: the awaited Promise.all resolves; while (this.tasks.length) again
TmCollectRound ==
  /\ tmScanner = "remote" /\ tmPc = "awaiting"
  /\ \A t \in tmBatch : t.status = "resolved"
  /\ IF tmTasks # {}
     THEN tmBatch' = tmTasks /\ tmTasks' = {} /\ UNCHANGED tmPc
     ELSE tmBatch' = {} /\ tmPc' = "done" /\ UNCHANGED tmTasks
  /\ UNCHANGED <<tmScanner, tmRegistry, tmEcosystems, tmCurrent>>
  /\ TermOnly

\* LocalScanner._collect: await this.scan(); this.ecosystems.push(Ecosystem.INIT)
TmLocalStart ==
  /\ tmScanner = "local" /\ tmPc = "idle"
  /\ tmEcosystems' = <<"INIT">>
  /\ tmPc' = "while"
  /\ UNCHANGED <<tmScanner, tmRegistry, tmTasks, tmBatch, tmCurrent>>
  /\ TermOnly

\* while (this.ecosystems.length) { const ecosystem = this.ecosystems.shift()!
TmLocalShift ==
  /\ tmScanner = "local" /\ tmPc = "while"
  /\ tmEcosystems # <<>>
  /\ tmCurrent' = Head(tmEcosystems)
  /\ tmEcosystems' = Tail(tmEcosystems)
  /\ tmPc' = "loadEcosystem"
  /\ UNCHANGED <<tmScanner, tmRegistry, tmTasks, tmBatch>>
  /\ TermOnly

\* the ecosystems loadEcosystem(eco) pushes, in the order of this.candidates
LocalPushes(reg, eco) ==
  LET declaring == SelectSeq(NameOrder, LAMBDA n : n \in Declaring(reg, eco))
  IN [k \in DOMAIN declaring |-> reg.declares[declaring[k]]]

\* this.loadEcosystem(ecosystem) }: every candidate the ecosystem accepts
\* that declares an ecosystem pushes it
TmLocalLoadEcosystem ==
  /\ tmScanner = "local" /\ tmPc = "loadEcosystem"
  /\ tmEcosystems' = tmEcosystems \o LocalPushes(tmRegistry, tmCurrent)
  /\ tmCurrent' = None
  /\ tmPc' = "while"
  /\ UNCHANGED <<tmScanner, tmRegistry, tmTasks, tmBatch>>
  /\ TermOnly

\* the loop ends; await Promise.allSettled(Object.values(this.pkgTasks)); return
TmLocalReturn ==
  /\ tmScanner = "local" /\ tmPc = "while"
  /\ tmEcosystems = <<>>
  /\ tmPc' = "done"
  /\ UNCHANGED <<tmScanner, tmRegistry, tmTasks, tmBatch, tmEcosystems, tmCurrent>>
  /\ TermOnly

\* every state a promise of loadEcosystem can be in
TermTasks == [eco : TermEcos, status : {"searching", "loading", "resolved"}, pending : SUBSET Names]

NextTerm ==
  \/ TmCollectStart
  \/ \E awaited \in BOOLEAN : \E t \in TermTasks : TmSearchResolve(awaited, t)
  \/ \E awaited \in BOOLEAN : \E t \in TermTasks : \E n \in Names : TmFetchRespond(awaited, t, n)
  \/ \E awaited \in BOOLEAN : \E t \in TermTasks : TmTaskResolve(awaited, t)
  \/ TmCollectRound
  \/ TmLocalStart
  \/ TmLocalShift
  \/ TmLocalLoadEcosystem
  \/ TmLocalReturn

SpecTerm == InitTerm /\ [][NextTerm]_vars

\* every request is answered in the end, and every step of the scanner that
\* can run does run
TermFairness ==
  /\ WF_vars(TmCollectStart) /\ WF_vars(TmCollectRound)
  /\ WF_vars(TmLocalStart) /\ WF_vars(TmLocalShift)
  /\ WF_vars(TmLocalLoadEcosystem) /\ WF_vars(TmLocalReturn)
  /\ \A awaited \in BOOLEAN : \A t \in TermTasks :
       /\ WF_vars(TmSearchResolve(awaited, t))
       /\ WF_vars(TmTaskResolve(awaited, t))
       /\ \A n \in Names : WF_vars(TmFetchRespond(awaited, t, n))

SpecTermFair == SpecTerm /\ TermFairness

\* C30: against a registry of finitely many ecosystems that answers every
\* request, collect() eventually completes, declaration cycles included.
C30_CollectCompletes == <>(tmPc = "done")

(***************************************************************************)
(* SpecStart: Synchronizer.start, run after run on one output directory.   *)
(*   stDisk     the output directory:                                      *)
(*                cache      the file `cache` getLegacy reads: <<>> when   *)
(*                           there is none, else <<snapshot>>              *)
(*                cacheJson  the file cache.json generate writes           *)
(*                stamps     for each file generate writes, the number of  *)
(*                           the run that wrote it last (0: none did)      *)
(*                output     the same for the file GITHUB_OUTPUT names     *)
(*                modules    the folder modules: <<>> when it does not     *)
(*                           exist, else <<the folders in it>>             *)
(*   stListing  the dates of the registry's listing (what collect finds)   *)
(*   stNow      Date.now()                                                 *)
(*   stRun      the run in progress: [n, pc, legacy, shouldUpdate,         *)
(*              forceTime, steps, before, prev]: legacy is what getLegacy  *)
(*              returned, forceTime is this.scanner.forceTime, steps are   *)
(*              the steps of start() run so far, before is stDisk as the   *)
(*              run found it, prev says whether the run before completed   *)
(*              generate and with which listing                            *)
(***************************************************************************)
StartOnly == UNCHANGED <<crawlVars, searchVars, selectVars, gateVars, loadVars, localVars, termVars, indexVars, checkVars, bundleVars>>

\* the listings of the registry and the snapshots a file `cache` may hold
StListings == {l \in [CheckNames -> 0..2] : l["p"] >= 1 /\ l["q"] = 1}
StSnapshots ==
  [version : {SyncVersion - 1, SyncVersion}, forceTime : {<<>>, <<0>>}, dates : StListings]

InitStart ==
  /\ IdleCrawl /\ IdleSearch /\ IdleSelect /\ IdleGate /\ IdleLoad /\ IdleLocal /\ IdleTerm
  /\ IdleIndex /\ IdleCheckAll /\ IdleBundle
  /\ \E cache \in {<<>>} \cup {<<x>> : x \in StSnapshots} :
     \E modules \in {<<>>, <<{}>>, <<{"p"}>>} :
       stDisk = [EmptyDisk EXCEPT !.cache = cache, !.modules = modules]
  /\ stListing \in StListings
  /\ stNow = 1000
  /\ stRun = [NoRun EXCEPT !.n = 1, !.pc = "checkAll", !.before = stDisk]

\* getLegacy: JSON.parse(await readFile(dirname + '/cache', 'utf8')), the
\* fallback of the catch when that file cannot be read
getLegacy(disk) == IF disk.cache = <<>> THEN NoSnapshot ELSE disk.cache[1]

\* getLegacy: await mkdir(dirname + '/modules', { recursive: true })
Mkdir(modules) == IF modules = <<>> THEN <<{}>> ELSE modules

\* a faulty variant of Proceeds: start() goes on whatever checkAll returned
ProceedsAlways(shouldUpdate) == TRUE

\* start: if (!shouldUpdate) return
Proceeds(shouldUpdate) == shouldUpdate

\* start: checkAll (getLegacy, collect, the comparison), the test of its
\* result and writeFile(process.env.GITHUB_OUTPUT, 'update=true')
StCheckAll ==
  /\ stRun.pc = "checkAll"
  /\ LET legacy == getLegacy(stDisk)
         in == [legacy |-> legacy, latest |-> stListing, now |-> stNow]
         forced == VersionMismatch(in) \/ Expired(in)
         shouldUpdate == forced \/ \E n \in Listed(in) : checkUpdate(in, n)
     IN /\ stRun' = [stRun EXCEPT !.legacy = legacy, !.shouldUpdate = shouldUpdate,
                                  !.forceTime = IF forced THEN <<stNow>> ELSE legacy.forceTime,
                                  !.pc = IF Proceeds(shouldUpdate) THEN "analyze" ELSE "returned"]
        /\ stDisk' = [stDisk EXCEPT !.modules = Mkdir(@),
                                    !.output = IF Proceeds(shouldUpdate) THEN stRun.n ELSE @]
  /\ UNCHANGED <<stListing, stNow>>
  /\ StartOnly

\* start: await step('analyze packages', () => this.analyze())
StAnalyze ==
  /\ stRun.pc = "analyze"
  /\ stRun' = [stRun EXCEPT !.pc = "bundleAll", !.steps = @ \cup {"analyze"}]
  /\ UNCHANGED <<stDisk, stListing, stNow>>
  /\ StartOnly

\* start: await step('bundle packages', () => this.bundleAll()); prepare
\* installs the packages it bundles under modules
StBundleAll ==
  /\ stRun.pc = "bundleAll"
  /\ stRun' = [stRun EXCEPT !.pc = "generate", !.steps = @ \cup {"bundleAll"}]
  /\ \E installed \in SUBSET CheckNames :
       stDisk' = [stDisk EXCEPT !.modules = <<@[1] \cup installed>>]
  /\ UNCHANGED <<stListing, stNow>>
  /\ StartOnly

\* start: await step('generate output', () => this.generate()): the five
\* writeFile calls, then the folders of modules no portable package uses
\* are removed
StGenerate ==
  /\ stRun.pc = "generate"
  /\ stRun' = [stRun EXCEPT !.pc = "returned", !.steps = @ \cup {"generate"}]
  /\ \E kept \in SUBSET stDisk.modules[1] :
       stDisk' = [stDisk EXCEPT
                    !.cacheJson = <<[version |-> SyncVersion, forceTime |-> stRun.forceTime,
                                     dates |-> stListing]>>,
                    !.stamps = [f \in OutFiles |-> stRun.n],
                    !.modules = <<kept>>]
  /\ UNCHANGED <<stListing, stNow>>
  /\ StartOnly

\* the next run of the script: some time has passed and the registry's
\* listing is the same or another
StNextRun ==
  /\ stRun.pc = "returned"
  /\ stRun.n < MaxRuns
  /\ stRun' = [NoRun EXCEPT !.n = stRun.n + 1, !.pc = "checkAll", !.before = stDisk,
                            !.prev = [generated |-> "generate" \in stRun.steps,
                                      listing |-> stListing]]
  /\ stNow' \in {stNow + 1000, stNow + REFRESH_INTERVAL + 1}
  /\ stListing' \in StListings
  /\ UNCHANGED stDisk
  /\ StartOnly

NextStart == StCheckAll \/ StAnalyze \/ StBundleAll \/ StGenerate \/ StNextRun

SpecStart == InitStart /\ [][NextStart]_vars

\* C32: a run that starts after a run that completed generate(), with the
\* listing unchanged and no more than half a day after the forced refresh
\* the previous run's snapshot records, reads that snapshot back and
\* checkAll returns false.
C32_RereadsItsSnapshot ==
  ( /\ stRun.pc \notin {"idle", "checkAll"}
    /\ stRun.prev.generated
    /\ stRun.prev.listing = stListing
    /\ stRun.before.cacheJson[1].forceTime # <<>>
    /\ stNow - stRun.before.cacheJson[1].forceTime[1] < REFRESH_INTERVAL )
  => /\ stRun.legacy = stRun.before.cacheJson[1]
     /\ ~stRun.shouldUpdate

\* C33 as stated: when checkAll has reported that no update is needed,
\* start() has run none of analyze, bundleAll and generate and has left
\* every output file and the modules folder as they were.
C33_NoUpdateChangesNothing ==
  (stRun.pc = "returned" /\ ~stRun.shouldUpdate) =>
    /\ stRun.steps = {}
    /\ stDisk = stRun.before

\* C33 amended: the same, except that the modules folder is created, empty,
\* when it did not exist; its content and every output file are as they were.
C33_NoUpdateChangesNoFile ==
  (stRun.pc = "returned" /\ ~stRun.shouldUpdate) =>
    /\ stRun.steps = {}
    /\ stDisk = [stRun.before EXCEPT !.modules = Mkdir(@)]

\* C33 witness: a second run has returned without an update and the files the
\* first run generated, and the folder it left in modules, are still there.
C33_Witness ==
  /\ stRun.pc = "returned" /\ ~stRun.shouldUpdate
  /\ stRun.n = 2
  /\ \A f \in OutFiles : stDisk.stamps[f] = 1
  /\ stDisk.output = 1
  /\ stDisk.modules # <<{}>>

\* C34 (SpecLocal): each catalog entry name is loaded at most once and
\* receives onSuccess at most once, when a candidate qualifies for several
\* ecosystems, when an ecosystem is processed more than once, and when
\* collect() is called several times.
C34_LoadedAtMostOnce ==
  \A k \in LocalKeys : lcCalls[k].loads <= 1 /\ lcCalls[k].success <= 1

\* C34 witness: collect() was called twice and has returned; package a, with
\* '.' and a subpath both declared, was accepted by two ecosystems, and each
\* of its two entries was loaded once and received onSuccess once.
C34_Witness ==
  /\ lcPc = "returned" /\ lcCollects = 2
  /\ lcVisited = <<"INIT", "x">>
  /\ lcCandidates["a"].memberOf = {"INIT", "x"}
  /\ lcCandidates["a"].exports = [p \in Subpaths |-> "manifest"]
  /\ lcCalls[<<"a">>] = [loads |-> 1, success |-> 1]
  /\ lcCalls[<<"a", "foo">>] = [loads |-> 1, success |-> 1]

====
